---- MODULE Spec2Model ----
(***************************************************************************)
(* Model of solidity-events-to-typeorm: the type classifier                *)
(* (getTypeDetails), the name synthesizer (generateTableName,              *)
(* generateTypeOrmEntityName), the column mapper (generateTypeOrmColumn)   *)
(* and the recursive entity generator (generateTypeOrmEntity /             *)
(* paramsToTypeOrmColumns / storeChildEntity).                             *)
(*                                                                         *)
(* Strings are sequences of one-character strings, so that the regular     *)
(* expressions and the case conversions of the code are computed character *)
(* by character.  Generated source text is a sequence of members (records),*)
(* one per declaration the code emits, in the order the code emits them.   *)
(***************************************************************************)
EXTENDS Integers, Sequences, FiniteSets, TLC

VARIABLES
    pc,          \* position of the run: "ready", "done" or "failed"
    event,       \* the event being generated: [eventName, compressedTopic, inputs]
    rootEntity,  \* text returned by the root call of generateTypeOrmEntity
    writes,      \* every writeFileToLint call of the run, in order: [file, text]
    files,       \* the entities directory: file name -> text last written
    param,       \* a ParamType handed to getTypeDetails
    typeDetails, \* what getTypeDetails returned for param
    nameCalls,   \* two calls of the name synthesizer: [name, topic, done, entity, table]
    generator,   \* the TypeOrmEntitiesGenerator: xxHashInstance set, initialize() pending
    run,         \* the call of generate(): config, position, topicsToContracts, error
    emitted,     \* what the run has emitted besides the entities: ABI files, topic list
    dataSource,  \* the DataSource of a migration synthesis: isInitialized, engine
    migration,   \* the call of TypeOrmMigrationGenerator.generate(): position, result
    caller,      \* the promise of generateTypeOrmFiles as its caller sees it
    signature,   \* the last result of getFullEventSignature
    lint,        \* the lint queue of the process and the files on disk by run
    uml,         \* the call of TypeOrmUmlGenerator.generate(): position, files
    invocations  \* the root calls of generateTypeOrmEntity so far, with results

vars == <<pc, event, rootEntity, writes, files, param, typeDetails, nameCalls,
          generator, run, emitted, dataSource, migration, caller,
          signature, lint, uml, invocations>>

\* The state of the generator object and of its run.
generatorVars == <<generator, run, emitted>>

\* The state of a migration synthesis and of the run around it.
migrationVars == <<dataSource, migration, caller>>

\* The state of the signature helper, of the lint queue and of the UML step,
\* and the record of repeated invocations.
extraVars == <<signature, lint, uml, invocations>>

----------------------------------------------------------------------------
(* Characters and JavaScript string primitives *)

LowerAlpha == <<"a","b","c","d","e","f","g","h","i","j","k","l","m",
                "n","o","p","q","r","s","t","u","v","w","x","y","z">>

UpperAlpha == <<"A","B","C","D","E","F","G","H","I","J","K","L","M",
                "N","O","P","Q","R","S","T","U","V","W","X","Y","Z">>

DigitChars == <<"0","1","2","3","4","5","6","7","8","9">>

LowerLetters == {LowerAlpha[i] : i \in 1..Len(LowerAlpha)}

UpperLetters == {UpperAlpha[i] : i \in 1..Len(UpperAlpha)}

Digits == {DigitChars[i] : i \in 1..Len(DigitChars)}

\* toUpperCase and toLowerCase on the letters, and the value of a digit.
UpperOf == [c \in LowerLetters |->
               UpperAlpha[CHOOSE i \in 1..Len(LowerAlpha) : LowerAlpha[i] = c]]

LowerOf == [c \in UpperLetters |->
               LowerAlpha[CHOOSE i \in 1..Len(UpperAlpha) : UpperAlpha[i] = c]]

ValueOf == [c \in Digits |-> (CHOOSE i \in 1..Len(DigitChars) : DigitChars[i] = c) - 1]

IsLower(c) == c \in LowerLetters

IsUpper(c) == c \in UpperLetters

IsAlpha(c) == IsLower(c) \/ IsUpper(c)

IsDigit(c) == c \in Digits

DigitValue(c) == ValueOf[c]

ToUpperChar(c) == IF IsLower(c) THEN UpperOf[c] ELSE c

ToLowerChar(c) == IF IsUpper(c) THEN LowerOf[c] ELSE c

ToUpperCase(s) == [i \in 1..Len(s) |-> ToUpperChar(s[i])]

ToLowerCase(s) == [i \in 1..Len(s) |-> ToLowerChar(s[i])]

SetMin(S) == CHOOSE x \in S : \A y \in S : x <= y

SetMax(S) == CHOOSE x \in S : \A y \in S : x >= y

\* Number.prototype.toString(): the decimal digits of a natural number.
RECURSIVE NumberToString(_)
NumberToString(n) ==
    IF n < 10 THEN <<DigitChars[n + 1]>>
    ELSE NumberToString(n \div 10) \o <<DigitChars[(n % 10) + 1]>>

\* The value of a run of decimal digits.
RECURSIVE DigitsValue(_)
DigitsValue(s) ==
    IF s = <<>> THEN 0
    ELSE 10 * DigitsValue(SubSeq(s, 1, Len(s) - 1)) + DigitValue(s[Len(s)])

\* parseInt(s): an optional sign, then the leading run of digits; NaN without one.
ParseInt(s) ==
    LET neg    == Len(s) >= 1 /\ s[1] = "-"
        body   == IF neg THEN SubSeq(s, 2, Len(s)) ELSE s
        stops  == {i \in 1..Len(body) : ~IsDigit(body[i])}
        last   == IF stops = {} THEN Len(body) ELSE SetMin(stops) - 1
        digits == SubSeq(body, 1, last)
    IN  IF digits = <<>> THEN "NaN"
        ELSE IF neg THEN 0 - DigitsValue(digits) ELSE DigitsValue(digits)

----------------------------------------------------------------------------
(* TypeClassifier: getTypeDetails *)

\* type.match(/[a-zA-Z]+/): the first maximal run of letters, '' without one.
MatchAlphaRun(type) ==
    LET starts == {i \in 1..Len(type) : IsAlpha(type[i])}
    IN  IF starts = {} THEN <<>>
        ELSE LET s == SetMin(starts)
                 e == SetMax({j \in s..Len(type) :
                                 \A k \in s..j : IsAlpha(type[k])})
             IN  SubSeq(type, s, e)

\* type.match(/.*\[(.*)\].*/): both .* before the brackets are greedy, so the
\* group is the text between the last '[' that a ']' follows and the last ']'.
\* Without a match the code falls back to [type, '0'].
MatchArrayGroup(type) ==
    LET opens == {i \in 1..Len(type) :
                     type[i] = "[" /\ \E j \in (i + 1)..Len(type) : type[j] = "]"}
    IN  IF opens = {} THEN <<"0">>
        ELSE LET i == SetMax(opens)
                 j == SetMax({k \in (i + 1)..Len(type) : type[k] = "]"})
             IN  SubSeq(type, i + 1, j - 1)

\* type.match(/[0-9]+(?!\])/): leftmost start, then the longest run of digits
\* whose next character is not ']' (the run backtracks one digit at a time).
MatchTypeSize(type) ==
    LET ok(s, e) == /\ \A k \in s..e : IsDigit(type[k])
                    /\ ~(e + 1 <= Len(type) /\ type[e + 1] = "]")
        starts == {s \in 1..Len(type) : \E e \in s..Len(type) : ok(s, e)}
    IN  IF starts = {} THEN <<>>
        ELSE LET s == SetMin(starts)
                 e == SetMax({k \in s..Len(type) : ok(s, k)})
             IN  SubSeq(type, s, e)

\* A size read from the first character of the group alone.
ParseArraySizeFirstDigit(arraySizeValue) ==
    ParseInt(IF arraySizeValue = <<>> THEN <<"-", "1">> ELSE <<arraySizeValue[1]>>)

\* if (arraySizeValue === '') arraySizeValue = '-1'; parseInt(arraySizeValue)
ParseArraySize(arraySizeValue) ==
    ParseInt(IF arraySizeValue = <<>> THEN <<"-", "1">> ELSE arraySizeValue)

\* The TypeDetails object: typeSize is set only when the match is not ''.
TypeDetails(type, underlyingType, arraySize, typeSize) ==
    IF typeSize # <<>>
    THEN [fullType       |-> type,
          underlyingType |-> underlyingType,
          arraySize      |-> arraySize,
          typeSize       |-> typeSize]
    ELSE [fullType       |-> type,
          underlyingType |-> underlyingType,
          arraySize      |-> arraySize]

getTypeDetails(paramType) ==
    TypeDetails(paramType.type,
                MatchAlphaRun(paramType.type),
                ParseArraySize(MatchArrayGroup(paramType.type)),
                MatchTypeSize(paramType.type))

HasTypeSize(details) == "typeSize" \in DOMAIN details

----------------------------------------------------------------------------
(* Case conversions of the name synthesizer: pascal-case, snake-case         *)
(* (both built on no-case) and camelcase.  Names are made of letters and     *)
(* '_' (the characters of the names the model draws).                        *)

IsAlnum(c) == IsAlpha(c) \/ IsDigit(c)

\* no-case strips /[^A-Z0-9]+/gi.
IsNoCaseSeparator(c) == ~IsAlnum(c)

\* camelcase separates on /[_.\- ]+/.
IsCamelSeparator(c) == c \in {"_", ".", "-", " "}

\* no-case splits at /([a-z0-9])([A-Z])/ and at /([A-Z])([A-Z][a-z])/:
\* whether a word ends after s[i].
NoCaseSplitAfter(s, i) ==
    /\ i + 1 <= Len(s)
    /\ \/ (IsLower(s[i]) \/ IsDigit(s[i])) /\ IsUpper(s[i + 1])
       \/ /\ IsUpper(s[i]) /\ IsUpper(s[i + 1])
          /\ i + 2 <= Len(s) /\ IsLower(s[i + 2])

\* camelcase's preserveCamelCase puts a '-' before an upper-case letter that
\* follows a lower-case one, and before the last of a run of upper-case
\* letters that a lower-case letter follows.
CamelSplitAfter(s, i) ==
    /\ i + 1 <= Len(s)
    /\ \/ IsLower(s[i]) /\ IsUpper(s[i + 1])
       \/ /\ IsUpper(s[i]) /\ IsUpper(s[i + 1])
          /\ i + 2 <= Len(s) /\ IsLower(s[i + 2])

\* The words of s: maximal runs of non-separators, cut at the split points,
\* by the rules of camelcase (camel) or of no-case.
WordsBy(s, camel) ==
    LET IsSep(c) == IF camel THEN IsCamelSeparator(c) ELSE IsNoCaseSeparator(c)
        SplitAfter(i) == IF camel THEN CamelSplitAfter(s, i)
                         ELSE NoCaseSplitAfter(s, i)
        isStart(i) == /\ ~IsSep(s[i])
                      /\ (i = 1 \/ IsSep(s[i - 1]) \/ SplitAfter(i - 1))
        wordEnd(i) == SetMin({j \in i..Len(s) :
                                 \/ j = Len(s)
                                 \/ IsSep(s[j + 1])
                                 \/ SplitAfter(j)})
        RECURSIVE from(_)
        from(i) == IF i > Len(s) THEN <<>>
                   ELSE IF isStart(i)
                        THEN <<SubSeq(s, i, wordEnd(i))>> \o from(wordEnd(i) + 1)
                        ELSE from(i + 1)
    IN  from(1)

Capitalize(w) == [i \in 1..Len(w) |-> IF i = 1 THEN ToUpperChar(w[i]) ELSE ToLowerChar(w[i])]

RECURSIVE Join(_, _)
Join(ws, sep) ==
    IF ws = <<>> THEN <<>>
    ELSE IF Len(ws) = 1 THEN ws[1]
    ELSE ws[1] \o sep \o Join(Tail(ws), sep)

\* pascalCaseTransform: a word starting with a digit, other than the first,
\* gets a '_' in front; every other word is capitalized.
PascalWord(w, index) ==
    IF index > 1 /\ IsDigit(w[1]) THEN <<"_">> \o ToLowerCase(w) ELSE Capitalize(w)

PascalWords(ws) == Join([i \in 1..Len(ws) |-> PascalWord(ws[i], i)], <<>>)

pascalCase(s) == PascalWords(WordsBy(s, FALSE))

SnakeWords(ws) == Join([i \in 1..Len(ws) |-> ToLowerCase(ws[i])], <<"_">>)

snakeCase(s) == SnakeWords(WordsBy(s, FALSE))

CamelWords(ws) ==
    Join([i \in 1..Len(ws) |->
             IF i = 1 THEN ToLowerCase(ws[i]) ELSE Capitalize(ws[i])], <<>>)

\* camelcase(input): '' stays '', a single character is lower-cased as it is,
\* otherwise the words are joined, the first in lower case, the others capitalized.
camelcase(s) ==
    IF Len(s) = 0 THEN <<>>
    ELSE IF Len(s) = 1 THEN ToLowerCase(s)
    ELSE CamelWords(WordsBy(s, TRUE))

----------------------------------------------------------------------------
(* NameSynthesizer *)

\* A table name made of the snake-cased name alone.
generateTableNameWithoutTopic(entityName, compressedTopic) ==
    snakeCase(entityName)

generateTableName(entityName, compressedTopic) ==
    snakeCase(entityName) \o <<"_">> \o compressedTopic

generateTypeOrmEntityName(entityName, compressedTopic) ==
    pascalCase(entityName) \o <<"Entity_">> \o compressedTopic

----------------------------------------------------------------------------
(* Generated constants (constants.ts) *)

\* const stepSize = 8; const maxSize = 256 (integer widths, in bits)
IntStepSize == 8

IntMaxSize == 256

\* for (let bytesLength = 1; bytesLength <= 32; bytesLength++)
MaxBytesLength == 32

BytesConstantName(bytesLength) ==
    <<"BYTES_">> \o NumberToString(bytesLength) \o <<"_LENGTH">>

\* generateBytesConstants: BYTES_<n>_LENGTH = 2 + n * 2, for n = 1..32.
generateBytesConstants ==
    {[name  |-> BytesConstantName(bytesLength),
      value |-> 2 + bytesLength * 2] : bytesLength \in 1..MaxBytesLength}

ConstantValue(name) ==
    (CHOOSE c \in generateBytesConstants : c.name = name).value

\* generateNumericConstants: the names of the constants it emits, for
\* currentValue = stepSize, 2 * stepSize, ... while currentValue <= maxSize.
NumericConstantName(kind, currentValue, what) ==
    kind \o <<"_">> \o NumberToString(currentValue) \o what

generateNumericConstants ==
    {NumericConstantName(kind, IntStepSize * k, what) :
        kind \in {<<"U","I","N","T">>, <<"I","N","T">>},
        k \in 1..(IntMaxSize \div IntStepSize),
        what \in {<<"_MAX_VALUE">>, <<"_MAX_DIGITS">>}}

----------------------------------------------------------------------------
(* ColumnMapper: generateTypeOrmColumn *)

UintType    == <<"u","i","n","t">>
IntType     == <<"i","n","t">>
BoolType    == <<"b","o","o","l">>
AddressType == <<"a","d","d","r","e","s","s">>
BytesType   == <<"b","y","t","e","s">>
StringType  == <<"s","t","r","i","n","g">>
TupleType   == <<"t","u","p","l","e">>

NoValue == <<>>

\* A mapping that knows the unsigned integers only.
ColumnTypeStringUnsignedOnly(underlyingType, typeSize) ==
    IF underlyingType = UintType
    THEN [type      |-> "numeric",
          precision |-> ToUpperCase(underlyingType) \o <<"_">> \o typeSize
                            \o <<"_MAX_DIGITS">>,
          tsType    |-> "string"]
    ELSE IF underlyingType = BoolType
    THEN [type |-> "boolean", precision |-> NoValue, tsType |-> "boolean"]
    ELSE [type |-> "varchar", precision |-> NoValue, tsType |-> "string"]

\* typeString of generateTypeOrmColumn: the storage type and, for uint and int,
\* the precision constant constants.<KIND>_<typeSize>_MAX_DIGITS.
ColumnTypeString(underlyingType, typeSize) ==
    IF underlyingType = UintType \/ underlyingType = IntType
    THEN [type      |-> "numeric",
          precision |-> ToUpperCase(underlyingType) \o <<"_">> \o typeSize
                            \o <<"_MAX_DIGITS">>,
          tsType    |-> "string"]
    ELSE IF underlyingType = BoolType
    THEN [type |-> "boolean", precision |-> NoValue, tsType |-> "boolean"]
    ELSE [type |-> "varchar", precision |-> NoValue, tsType |-> "string"]

\* underlyingType === 'address' ? `length: constants.BYTES_32_LENGTH` : ``
ColumnLength(underlyingType) ==
    IF underlyingType = AddressType THEN BytesConstantName(32) ELSE NoValue

ColumnMember(parameterName, underlyingType, typeString) ==
    [kind      |-> "column",
     name      |-> snakeCase(parameterName),
     nullable  |-> FALSE,
     type      |-> typeString.type,
     precision |-> typeString.precision,
     update    |-> FALSE,
     length    |-> ColumnLength(underlyingType),
     property  |-> parameterName,
     tsType    |-> typeString.tsType,
     comment   |-> underlyingType]

generateTypeOrmColumn(parameterName, underlyingType, typeSize) ==
    ColumnMember(parameterName, underlyingType,
                 ColumnTypeString(underlyingType, typeSize))

----------------------------------------------------------------------------
(* EntityGraphBuilder: generateTypeOrmEntity, paramsToTypeOrmColumns,        *)
(* generateChildEntityRelation, storeChildEntity                             *)

\* An optional argument that was not passed.
Undefined == <<"<undefined>">>

\* The name ethers' ParamType.from gives a parameter built without a name.
Null == <<"<null>">>

\* JavaScript truthiness of an optional string.
Truthy(x) == x # Undefined /\ x # Null /\ x # <<>>

\* generateWarningAndImports: the warning comment and the fixed import lines.
\* The typeorm import names ManyToOne once; `imports` are the entity imports
\* put after the comment's closing line later on.
generateWarningAndImports == [kind |-> "header", imports |-> <<>>]

\* A relation for tuples alone.
IsTupleField(fieldInfo) == fieldInfo.underlyingType = TupleType

\* fieldInfo.underlyingType === 'tuple' || fieldInfo.arraySize !== 0
IsRelationField(fieldInfo) ==
    fieldInfo.underlyingType = TupleType \/ fieldInfo.arraySize # 0

\* An array only when the size is not fixed.
IsDynamicArrayField(fieldInfo) == fieldInfo.arraySize = -1

\* const isArray = fieldInfo.arraySize !== 0
IsArrayField(fieldInfo) == fieldInfo.arraySize # 0

generateChildEntityRelation(parameterName, compressedTopic, parentEntityName, isArray, fieldInfo) ==
    [kind      |-> "relation",
     decorator |-> IF isArray THEN "OneToMany" ELSE "OneToOne",
     target    |-> generateTypeOrmEntityName(parameterName, compressedTopic),
     inverse   |-> parentEntityName,
     property  |-> parameterName,
     array     |-> isArray,
     comment   |-> fieldInfo.fullType]

\* ethers' verifyType, applied by ParamType.from: a bare uint or int is
\* spelled out as uint256 or int256.
VerifyType(type) ==
    IF /\ Len(type) >= 4 /\ SubSeq(type, 1, 4) = UintType
       /\ (Len(type) = 4 \/ type[5] \notin {"1","2","3","4","5","6","7","8","9"})
    THEN UintType \o <<"2","5","6">> \o SubSeq(type, 5, Len(type))
    ELSE IF /\ Len(type) >= 3 /\ SubSeq(type, 1, 3) = IntType
            /\ (Len(type) = 3 \/ type[4] \notin {"1","2","3","4","5","6","7","8","9"})
    THEN IntType \o <<"2","5","6">> \o SubSeq(type, 4, Len(type))
    ELSE type

\* ethers.utils.ParamType.from({ name, type, indexed }): an empty name
\* becomes null, the type goes through verifyType.
ParamTypeFrom(name, type) ==
    [name       |-> IF name = <<>> \/ name = Null THEN Null ELSE name,
     type       |-> VerifyType(type),
     components |-> <<>>]

\* The back-reference paramsToTypeOrmColumns appends for a child.
ParentBackReference(compressedTopic, typeOrmEntityName, parentEntityName) ==
    [kind      |-> "backref",
     decorator |-> "ManyToOne",
     target    |-> pascalCase(parentEntityName) \o <<"Entity_">> \o compressedTopic,
     inverse   |-> camelcase(typeOrmEntityName),
     property  |-> camelcase(parentEntityName)]

\* The whitespace-delimited words of one member's text that hold an entity
\* class name, in text order: [name, rest], rest being what follows the name
\* in the same word.
EntityWords(member) ==
    IF member.kind = "class" THEN <<[name |-> member.name, rest |-> <<>>]>>
    ELSE IF member.kind = "relation"
    THEN <<[name |-> member.target, rest |-> <<",">>],
           [name |-> member.target, rest |-> <<")">>],
           [name |-> member.target,
            rest |-> IF member.array THEN <<"[", "]", ";">> ELSE <<";">>]>>
    ELSE IF member.kind = "backref"
    THEN <<[name |-> member.target, rest |-> <<",">>],
           [name |-> member.target, rest |-> <<")">>],
           [name |-> member.target, rest |-> <<";">>]>>
    ELSE <<>>

RECURSIVE AllEntityWords(_)
AllEntityWords(output) ==
    IF output = <<>> THEN <<>>
    ELSE EntityWords(Head(output)) \o AllEntityWords(Tail(output))

\* Both regular expressions ask for at least one non-space character before
\* 'Entity_': a class name whose pascal-cased part is empty never matches.
MatchesEntityName(word) == word.name[1] # "Entity_"

MatchingWords(output) == SelectSeq(AllEntityWords(output), MatchesEntityName)

WholeWords(ws) == [i \in 1..Len(ws) |-> ws[i].name \o ws[i].rest]

ClassNames(ws) == [i \in 1..Len(ws) |-> ws[i].name]

\* output.match(/[^\s]+Entity_[^\s]+/): the matching words, whole.
\* The first one is what the code takes for the declared entity's name.
EntityNameMatches(output) == WholeWords(MatchingWords(output))

\* output.matchAll(/[^\s]+Entity_[^\s|^;|^,|^)|^[]+/g): the class names alone.
EntityReferences(output) == ClassNames(MatchingWords(output))

\* new Set(...) then delete(entityName): distinct, in order of first occurrence.
RECURSIVE EntitiesToImport(_, _, _)
EntitiesToImport(refs, entityName, seen) ==
    IF refs = <<>> THEN <<>>
    ELSE IF Head(refs) = entityName \/ Head(refs) \in seen
         THEN EntitiesToImport(Tail(refs), entityName, seen)
         ELSE <<Head(refs)>>
                  \o EntitiesToImport(Tail(refs), entityName, seen \cup {Head(refs)})

\* output.replace('*/\n', entitiesImportStatements)
WithImports(output, imports) ==
    [i \in 1..Len(output) |->
        IF i = SetMin({j \in 1..Len(output) : output[j].kind = "header"})
        THEN [kind |-> "header", imports |-> imports]
        ELSE output[i]]

\* The text with the import statements of the entities it names, the one
\* declared (the first match) left out; a text without a match makes
\* match(...)![0] throw.
ImportEntities(output, matches) ==
    IF matches = <<>>
    THEN [thrown |-> TRUE, file |-> <<>>, output |-> output]
    ELSE [thrown |-> FALSE,
          file   |-> matches[1],
          output |-> WithImports(output,
                         EntitiesToImport(EntityReferences(output), matches[1], {}))]

StoredFile(imported) ==
    [thrown |-> imported.thrown,
     writes |-> IF imported.thrown THEN <<>>
                ELSE <<[file |-> imported.file, text |-> imported.output]>>]

\* storeChildEntity: the file is named after the first entity-name match of
\* the text and holds the text with its imports.
storeChildEntity(childEntity) ==
    StoredFile(ImportEntities(childEntity, EntityNameMatches(childEntity)))

\* (output.match(/ManyToOne/g) || []).length
ManyToOneOccurrences(output) ==
    Cardinality({i \in 1..Len(output) :
                    \/ output[i].kind = "header"
                    \/ output[i].kind = "backref" /\ output[i].decorator = "ManyToOne"})

\* The text left as it is.
KeepManyToOne(output, isArray) == output

\* if (!isArray): with more than one ManyToOne in the text, the last one
\* is rewritten to OneToOne.
RewriteLastManyToOne(output, isArray) ==
    IF ~isArray /\ ManyToOneOccurrences(output) > 1
    THEN LET last == SetMax({i \in 1..Len(output) :
                                output[i].kind = "backref"
                                /\ output[i].decorator = "ManyToOne"})
         IN  [output EXCEPT ![last].decorator = "OneToOne"]
    ELSE output

\* The recursion generateTypeOrmEntity -> paramsToTypeOrmColumns ->
\* generateTypeOrmEntity is run on an explicit call stack.  A frame is one
\* call of generateTypeOrmEntity: its arguments, the index of the parameter
\* its loop is at, and the members paramsToTypeOrmColumns has appended so far.
CallFrame(entityName, inputs, parentEntityName, isArray) ==
    [entityName       |-> entityName,
     inputs           |-> inputs,
     parentEntityName |-> parentEntityName,
     isArray          |-> isArray,
     next             |-> 1,
     output           |-> <<>>]

\* What generateTypeOrmEntity emits before it calls paramsToTypeOrmColumns:
\* the imports, the class line (a node without a parent name extends
\* BlockchainEventEntity) and, for a node with a parent name, the id column.
EntityHead(frame, compressedTopic) ==
    <<generateWarningAndImports,
      [kind    |-> "class",
       table   |-> generateTableName(frame.entityName, compressedTopic),
       name    |-> generateTypeOrmEntityName(frame.entityName, compressedTopic),
       extends |-> ~Truthy(frame.parentEntityName)]>>
    \o (IF Truthy(frame.parentEntityName) THEN <<[kind |-> "id"]>> ELSE <<>>)

\* The root's own import statements: if (!parentEntityName) { ... }
RootImports(output) == ImportEntities(output, EntityNameMatches(output))

\* output += `}\n`, then the ManyToOne rewrite; a throw leaves the text as it is.
CloseEntity(imported, isArray) ==
    [thrown |-> imported.thrown,
     output |-> IF imported.thrown THEN imported.output
                ELSE RewriteLastManyToOne(
                         imported.output \o <<[kind |-> "close"]>>, isArray)]

ImportedBody(body, parentEntityName) ==
    IF ~Truthy(parentEntityName)
    THEN RootImports(body)
    ELSE [thrown |-> FALSE, output |-> body]

\* The back-reference paramsToTypeOrmColumns appends: if (parentEntityName)
BackReferenceOf(frame, compressedTopic) ==
    IF Truthy(frame.parentEntityName)
    THEN <<ParentBackReference(compressedTopic, camelcase(frame.entityName),
                               frame.parentEntityName)>>
    ELSE <<>>

\* The end of a call, once the loop over the parameters is over: the
\* back-reference, the imports of a node without a parent name, the closing
\* brace, the ManyToOne rewrite.
FinishEntity(frame, compressedTopic) ==
    CloseEntity(ImportedBody(EntityHead(frame, compressedTopic) \o frame.output
                                 \o BackReferenceOf(frame, compressedTopic),
                             frame.parentEntityName),
                frame.isArray)

\* A tuple's components, or for a primitive array one parameter of the
\* underlying type built by ParamType.from.
ParamComponents(p, fieldInfo) ==
    IF fieldInfo.underlyingType = TupleType
    THEN p.components
    ELSE <<ParamTypeFrom(p.name, fieldInfo.underlyingType)>>

\* The relation branch of the loop body: the relation goes to the output of
\* the current call and generateTypeOrmEntity is called for the child.
RelationStep(m, p, fieldInfo, paramName, typeOrmEntityName, compressedTopic) ==
    [m EXCEPT !.stack =
        Append([@ EXCEPT ![Len(m.stack)].output =
                   @ \o <<generateChildEntityRelation(
                              paramName, compressedTopic, typeOrmEntityName,
                              IsArrayField(fieldInfo), fieldInfo)>>],
               CallFrame(paramName, ParamComponents(p, fieldInfo),
                         typeOrmEntityName, IsArrayField(fieldInfo))),
              !.depth = IF Len(m.stack) + 1 > @ THEN Len(m.stack) + 1 ELSE @]

\* The column branch of the loop body; typeSize is fieldInfo.typeSize || ''.
ColumnStep(m, fieldInfo, paramName) ==
    [m EXCEPT !.stack[Len(m.stack)].output =
                  @ \o <<generateTypeOrmColumn(
                             paramName, fieldInfo.underlyingType,
                             IF HasTypeSize(fieldInfo)
                             THEN fieldInfo.typeSize ELSE <<>>)>>,
              !.stack[Len(m.stack)].next = @ + 1]

FieldStep(m, p, fieldInfo, paramName, typeOrmEntityName, compressedTopic) ==
    IF IsRelationField(fieldInfo)
    THEN RelationStep(m, p, fieldInfo, paramName, typeOrmEntityName, compressedTopic)
    ELSE ColumnStep(m, fieldInfo, paramName)

\* The body of `for (const param of params)` for the parameter p the top
\* frame is at; camelcase(null) throws.
ParamStep(m, p, compressedTopic) ==
    IF p.name = Null
    THEN [m EXCEPT !.thrown = TRUE, !.halted = TRUE]
    ELSE FieldStep(m, p, getTypeDetails(p), camelcase(p.name),
                   camelcase(m.stack[Len(m.stack)].entityName), compressedTopic)

\* A child stored once per slot of a two-element array.
StoreChildTwice(m, stored) ==
    IF stored.thrown
    THEN [m EXCEPT !.thrown = TRUE, !.halted = TRUE]
    ELSE [m EXCEPT !.stack = [SubSeq(@, 1, Len(m.stack) - 1)
                                 EXCEPT ![Len(m.stack) - 1].next = @ + 1],
                   !.writes = @ \o stored.writes \o stored.writes]

\* if (entitiesOutputPath) storeChildEntity(childEntity, entitiesOutputPath),
\* then the parent's loop goes on with its next parameter.
StoreStep(m, stored) ==
    IF stored.thrown
    THEN [m EXCEPT !.thrown = TRUE, !.halted = TRUE]
    ELSE [m EXCEPT !.stack = [SubSeq(@, 1, Len(m.stack) - 1)
                                 EXCEPT ![Len(m.stack) - 1].next = @ + 1],
                   !.writes = @ \o stored.writes]

\* The return of the top frame's call: the root's text is the result of the
\* run; a child's text goes to storeChildEntity.
ReturnStep(m, finished) ==
    IF finished.thrown
    THEN [m EXCEPT !.thrown = TRUE, !.halted = TRUE]
    ELSE IF Len(m.stack) = 1
    THEN [m EXCEPT !.output = finished.output, !.halted = TRUE]
    ELSE StoreStep(m, storeChildEntity(finished.output))

CallStep(m, frame, compressedTopic) ==
    IF frame.next <= Len(frame.inputs)
    THEN ParamStep(m, frame.inputs[frame.next], compressedTopic)
    ELSE ReturnStep(m, FinishEntity(frame, compressedTopic))

RECURSIVE RunCalls(_, _)
RunCalls(m, compressedTopic) ==
    IF m.halted THEN m
    ELSE RunCalls(CallStep(m, m.stack[Len(m.stack)], compressedTopic),
                  compressedTopic)

\* generateTypeOrmEntity with an entities output path: the text of the entity
\* (output), the child files written on the way (writes), whether the call
\* threw, and the largest number of calls of it that were active at once
\* (depth).
generateTypeOrmEntity(entityName, compressedTopic, inputs, parentEntityName, isArray) ==
    RunCalls([stack  |-> <<CallFrame(entityName, inputs, parentEntityName, isArray)>>,
              writes |-> <<>>,
              output |-> <<>>,
              thrown |-> FALSE,
              halted |-> FALSE,
              depth  |-> 1],
             compressedTopic)

----------------------------------------------------------------------------
(* Inputs *)

\* Most parameters (fields, at any depth) of one event descriptor.
MaxParams == 3

\* Largest fixed array size n of a type T[n] handed to the classifier.
MaxArraySize == 11

\* Longest name handed to the name synthesizer.
MaxNameLen == 2

Topics == {<<"c","0">>, <<"d","1">>}

EventNames == {<<"A">>}

FieldNames == {<<>>, <<"a">>, <<"A">>}

\* `${underlyingType}${typeSize}${suffix}`; arraySize 0 is no suffix, a
\* negative one '[]', a positive one '[n]'.
TypeString(underlyingType, typeSize, arraySize) ==
    underlyingType
        \o (IF typeSize = 0 THEN <<>> ELSE NumberToString(typeSize))
        \o (IF arraySize = 0 THEN <<>>
            ELSE IF arraySize > 0
                 THEN <<"[">> \o NumberToString(arraySize) \o <<"]">>
                 ELSE <<"[", "]">>)

\* Field types of the event trees: a primitive, a fixed primitive array,
\* a tuple and a dynamic tuple array (every other type is drawn by InitTypes).
LeafTypes == {TypeString(UintType, 8, 0), TypeString(AddressType, 0, 2)}

TupleTypes == {TypeString(TupleType, 0, 0), TypeString(TupleType, 0, -1)}

RECURSIVE ParamsOfSize(_)
RECURSIVE ParamListsOfSize(_)

\* The parameters whose tree has exactly n parameters, itself included.
ParamsOfSize(n) ==
    IF n = 1
    THEN {[name |-> nm, type |-> ty, components |-> <<>>] :
             nm \in FieldNames, ty \in LeafTypes}
    ELSE {[name |-> nm, type |-> ty, components |-> cs] :
             nm \in FieldNames, ty \in TupleTypes, cs \in ParamListsOfSize(n - 1)}

\* The parameter lists holding exactly n parameters at all depths together.
ParamListsOfSize(n) ==
    IF n = 0 THEN {<<>>}
    ELSE UNION {{<<f>> \o rest : f \in ParamsOfSize(k),
                                 rest \in ParamListsOfSize(n - k)} : k \in 1..n}

EventInputs == UNION {ParamListsOfSize(n) : n \in 0..MaxParams}

\* The sized and unsized base types of the ABI grammar, as (name, width).
BaseTypes ==
    {<<UintType, w>> : w \in {IntStepSize * k : k \in 1..(IntMaxSize \div IntStepSize)}}
    \cup {<<IntType, w>> : w \in {IntStepSize * k : k \in 1..(IntMaxSize \div IntStepSize)}}
    \cup {<<BytesType, w>> : w \in 1..MaxBytesLength}
    \cup {<<BoolType, 0>>, <<StringType, 0>>, <<AddressType, 0>>,
          <<BytesType, 0>>, <<TupleType, 0>>}

ArraySizes == (-1)..MaxArraySize

\* The components of the tuple handed to the classifier specification.
TupleComponents ==
    <<[name |-> <<"x">>, type |-> TypeString(AddressType, 0, 0), components |-> <<>>],
      [name |-> <<"y">>, type |-> TypeString(UintType, 256, 0), components |-> <<>>]>>

ParamName == <<"v","a","l">>

TypeParams ==
    {[name       |-> ParamName,
      type       |-> TypeString(b[1], b[2], n),
      components |-> IF b[1] = TupleType THEN TupleComponents ELSE <<>>] :
        b \in BaseTypes, n \in ArraySizes}

\* Every type string of TypeParams with the parts it was written from.
TypeTable ==
    {[type           |-> TypeString(b[1], b[2], n),
      underlyingType |-> b[1],
      typeSize       |-> b[2],
      arraySize      |-> n] : b \in BaseTypes, n \in ArraySizes}

NameAlphabet == {"a", "B", "_"}

NameInputs == UNION {[1..n -> NameAlphabet] : n \in 0..MaxNameLen}

NoParam == [name |-> <<>>, type |-> <<>>, components |-> <<>>]

NoEvent == [eventName |-> <<>>, compressedTopic |-> <<>>, inputs |-> <<>>]

NotClassified == [fullType |-> <<>>]

\* new TypeOrmEntitiesGenerator(): private xxHashInstance: XXHashAPI | null = null
NewGenerator == [xxHashInstance |-> FALSE, initializing |-> FALSE]

NoRun ==
    [phase |-> "idle", contracts |-> <<>>, next |-> 1, topicsToContracts |-> <<>>,
     details |-> <<>>, error |-> "none", config |-> <<>>]

NothingEmitted == [abis |-> [f \in {} |-> <<>>], topicList |-> [written |-> FALSE, entries |-> <<>>]]

\* No generator object takes part.
NoGenerator ==
    /\ generator = NewGenerator
    /\ run = NoRun
    /\ emitted = NothingEmitted

\* new DataSource(...): not initialized, its engine not started.
NewDataSource == [isInitialized |-> FALSE, engine |-> "notStarted"]

\* A configuration without `migrations`.
NoMigrationsConfig ==
    [configured |-> FALSE, migrationName |-> <<>>, schemaName |-> <<>>,
     schemaVariable |-> "omitted"]

NoSql == [upQueries |-> <<>>, downQueries |-> <<>>]

NoFile == [written |-> FALSE, name |-> <<>>, preamble |-> <<>>, up |-> <<>>, down |-> <<>>]

NoMigrationCall ==
    [phase |-> "idle", config |-> NoMigrationsConfig, entities |-> <<>>,
     sqlInMemory |-> NoSql, file |-> NoFile, error |-> "none"]

NoCaller == [phase |-> "idle", error |-> "none"]

\* No signature computed; the module-level lint queue empty, nothing on disk,
\* no run made; a configuration without `docs` and no UML generation.
NoLint == [filesToLint |-> {}, disk |-> {}, linted |-> {}, runs |-> 0]

NoUml == [docs |-> FALSE, phase |-> "idle", temporaryFiles |-> {}]

NoExtra ==
    /\ signature = <<>>
    /\ lint = NoLint
    /\ uml = NoUml
    /\ invocations = <<>>

\* No migration is synthesized.
NoMigration ==
    /\ dataSource = NewDataSource
    /\ migration = NoMigrationCall
    /\ caller = NoCaller

----------------------------------------------------------------------------
(* The generation run *)

RECURSIVE WriteFiles(_, _)
\* fs.writeFileSync for each write in order: a later write of a file
\* replaces the earlier text.
WriteFiles(dir, ws) ==
    IF ws = <<>> THEN dir
    ELSE WriteFiles([f \in DOMAIN dir \cup {Head(ws).file} |->
                        IF f = Head(ws).file THEN Head(ws).text ELSE dir[f]],
                    Tail(ws))

EmptyDir == [f \in {} |-> <<>>]

\* The files of one event: the children's, then (unless the call threw)
\* the root's, named by generateTypeOrmEntityName.
EventWrites(entity, entityName) ==
    IF entity.thrown THEN entity.writes
    ELSE entity.writes \o <<[file |-> entityName, text |-> entity.output]>>

WriteEvent(entity, written) ==
    /\ rootEntity' = entity.output
    /\ writes' = written
    /\ files' = WriteFiles(files, written)
    /\ pc' = IF entity.thrown THEN "failed" ELSE "done"

EventEntity(e) ==
    generateTypeOrmEntity(e.eventName, e.compressedTopic, e.inputs, Undefined, FALSE)

\* generateEntities, for the event of the run: the root call of
\* generateTypeOrmEntity (which stores every child entity), then the root file.
GenerateEntities ==
    /\ pc = "ready"
    /\ WriteEvent(EventEntity(event),
                  EventWrites(EventEntity(event),
                              generateTypeOrmEntityName(event.eventName,
                                                        event.compressedTopic)))
    /\ UNCHANGED <<event, param, typeDetails, nameCalls, generatorVars, migrationVars, extraVars>>

Init ==
    /\ pc = "ready"
    /\ event \in {[eventName |-> nm, compressedTopic |-> <<"c","0">>, inputs |-> ins] :
                     nm \in EventNames, ins \in EventInputs}
    /\ rootEntity = <<>>
    /\ writes = <<>>
    /\ files = EmptyDir
    /\ param = NoParam
    /\ typeDetails = NotClassified
    /\ nameCalls = <<>>
    /\ NoGenerator
    /\ NoMigration
    /\ NoExtra

Next == GenerateEntities

Spec == Init /\ [][Next]_vars

----------------------------------------------------------------------------
(* The classifier and the column mapper on every type of the grammar *)

Classify ==
    /\ typeDetails = NotClassified
    /\ typeDetails' = getTypeDetails(param)
    /\ UNCHANGED <<pc, event, rootEntity, writes, files, param, nameCalls,
                   generatorVars, migrationVars, extraVars>>

InitTypes ==
    /\ pc = "ready"
    /\ param \in TypeParams
    /\ event = [eventName |-> <<"E","v">>, compressedTopic |-> <<"c","0">>,
                inputs |-> <<param>>]
    /\ rootEntity = <<>>
    /\ writes = <<>>
    /\ files = EmptyDir
    /\ typeDetails = NotClassified
    /\ nameCalls = <<>>
    /\ NoGenerator
    /\ NoMigration
    /\ NoExtra

NextTypes == Classify \/ GenerateEntities

SpecTypes == InitTypes /\ [][NextTypes]_vars

----------------------------------------------------------------------------
(* The name synthesizer on pairs of calls *)

NameRequest(nm, t) ==
    [name |-> nm, topic |-> t, done |-> FALSE, entity |-> <<>>, table |-> <<>>]

\* The next pending call of generateTypeOrmEntityName and generateTableName.
SynthesizeNames ==
    /\ \E i \in 1..Len(nameCalls) :
          /\ ~nameCalls[i].done
          /\ \A j \in 1..(i - 1) : nameCalls[j].done
          /\ nameCalls' =
                [nameCalls EXCEPT
                    ![i].done   = TRUE,
                    ![i].entity = generateTypeOrmEntityName(nameCalls[i].name,
                                                            nameCalls[i].topic),
                    ![i].table  = generateTableName(nameCalls[i].name,
                                                    nameCalls[i].topic)]
    /\ UNCHANGED <<pc, event, rootEntity, writes, files, param, typeDetails,
                   generatorVars, migrationVars, extraVars>>

InitNames ==
    /\ pc = "ready"
    /\ event = NoEvent
    /\ rootEntity = <<>>
    /\ writes = <<>>
    /\ files = EmptyDir
    /\ param = NoParam
    /\ typeDetails = NotClassified
    /\ nameCalls \in {<<NameRequest(n1, t1), NameRequest(n2, t2)>> :
                         n1 \in NameInputs, t1 \in Topics,
                         n2 \in NameInputs, t2 \in Topics}
    /\ NoGenerator
    /\ NoMigration
    /\ NoExtra

NextNames == SynthesizeNames

SpecNames == InitNames /\ [][NextNames]_vars

----------------------------------------------------------------------------
(* The entities generator: initialize(), generate(), the topic registry *)

MaxContracts == 2

MaxAbiEvents == 2

AbiEventNames == {<<"A">>, <<"B">>}

ContractNameList == <<<<"X">>, <<"Y">>, <<"Z">>, <<"W">>>>

\* JsonFragment of an event without parameters.
EventFragment(nm) == [type |-> "event", name |-> nm, inputs |-> <<>>]

AbisOfSize(n) == [1..n -> {EventFragment(nm) : nm \in AbiEventNames}]

Abis == UNION {AbisOfSize(n) : n \in 0..MaxAbiEvents}

\* config.contracts: the contracts of the configuration, each under its own
\* name; an ABI may list the same event more than once.
ContractsOfSize(n) ==
    {[i \in 1..n |-> [contractName |-> ContractNameList[i], abi |-> abis[i]]] :
        abis \in [1..n -> Abis]}

ContractConfigs == UNION {ContractsOfSize(n) : n \in 0..MaxContracts}

\* Interface.getEventTopic: the hash of the event's signature, which for an
\* event without parameters is fixed by its name.
getEventTopic(nm) == <<"0", "x">> \o nm \o <<"(", ")">>

\* XXHashAPI.h32ToString: a short digest, a function of the topic alone.
h32ToString(topic) == <<"h">> \o ToLowerCase(SubSeq(topic, 3, Len(topic) - 2))

ContractEventDetails(item) ==
    [eventName       |-> item.name,
     topic           |-> getEventTopic(item.name),
     compressedTopic |-> h32ToString(getEventTopic(item.name)),
     inputs          |-> item.inputs]

IsEventFragment(item) == item.type = "event"

extractEventDetails(abi) ==
    LET items == SelectSeq(abi, IsEventFragment)
    IN  [i \in 1..Len(items) |-> ContractEventDetails(items[i])]

\* Map.has on the registry, kept as the sequence of its entries in
\* insertion order.
MapHas(topicsToContracts, topic) ==
    \E i \in 1..Len(topicsToContracts) : topicsToContracts[i].topic = topic

\* topicsToContracts.get(topic)?.contractNames.push(contractName)
MapPush(topicsToContracts, topic, contractName) ==
    [i \in 1..Len(topicsToContracts) |->
        IF topicsToContracts[i].topic = topic
        THEN [topicsToContracts[i] EXCEPT
                 !.contractNames = Append(@, contractName)]
        ELSE topicsToContracts[i]]

\* topicsToContracts.set(topic, {eventName, contractNames}) of a new key
MapSet(topicsToContracts, topic, eventName, contractNames) ==
    Append(topicsToContracts,
           [topic |-> topic, eventName |-> eventName,
            contractNames |-> contractNames])

RECURSIVE updateTopicsMapping(_, _, _)
updateTopicsMapping(events, contractName, topicsToContracts) ==
    IF events = <<>> THEN topicsToContracts
    ELSE updateTopicsMapping(
             Tail(events), contractName,
             IF MapHas(topicsToContracts, Head(events).topic)
             THEN MapPush(topicsToContracts, Head(events).topic, contractName)
             ELSE MapSet(topicsToContracts, Head(events).topic,
                         Head(events).eventName, <<contractName>>))

\* writeContractABI: <contractName>.json holds the ABI.
writeContractABI(abis, contractInfo) ==
    [f \in DOMAIN abis \cup {contractInfo.contractName} |->
        IF f = contractInfo.contractName THEN contractInfo.abi ELSE abis[f]]

NoAbis == [f \in {} |-> <<>>]

RECURSIVE AllEvents(_)
AllEvents(contracts) ==
    IF contracts = <<>> THEN <<>>
    ELSE Head(contracts).events \o AllEvents(Tail(contracts))

\* generateEntities: the files of every event of every contract in turn; an
\* event whose generation throws ends the loop.
RECURSIVE EntitiesWrites(_)
EntitiesWrites(events) ==
    IF events = <<>> THEN <<>>
    ELSE LET entity == EventEntity(Head(events))
         IN  EventWrites(entity,
                         generateTypeOrmEntityName(Head(events).eventName,
                                                   Head(events).compressedTopic))
             \o (IF entity.thrown THEN <<>> ELSE EntitiesWrites(Tail(events)))

NotInitializedError == "Generator not initialized. Call initialize() first."

\* The guard of generate(): !this.xxHashInstance
AlwaysInitialized(g) == FALSE

NotInitialized(g) == ~g.xxHashInstance

\* generate() is synchronous: no other call of the program runs between its
\* steps.
Running == run.phase = "processing"

\* initialize() is called: xxhash() is pending.
Initialize ==
    /\ ~Running
    /\ ~generator.initializing
    /\ generator' = [generator EXCEPT !.initializing = TRUE]
    /\ UNCHANGED <<pc, event, rootEntity, writes, files, param, typeDetails,
                   nameCalls, run, emitted, migrationVars, extraVars>>

\* xxhash() resolves: this.xxHashInstance = await xxhash()
XxhashResolves ==
    /\ ~Running
    /\ generator.initializing
    /\ generator' = [xxHashInstance |-> TRUE, initializing |-> FALSE]
    /\ UNCHANGED <<pc, event, rootEntity, writes, files, param, typeDetails,
                   nameCalls, run, emitted, migrationVars, extraVars>>

\* xxhash() rejects: initialize() rejects and assigns nothing.
XxhashRejects ==
    /\ ~Running
    /\ generator.initializing
    /\ generator' = [generator EXCEPT !.initializing = FALSE]
    /\ UNCHANGED <<pc, event, rootEntity, writes, files, param, typeDetails,
                   nameCalls, run, emitted, migrationVars, extraVars>>

\* generate(config) is called: it throws when the generator is not
\* initialized, and otherwise enters processArtifacts with an empty registry.
\* A caller that holds a raw configuration transforms it first.
Generate ==
    /\ ~Running
    /\ run.phase # "configured"
    /\ IF NotInitialized(generator)
       THEN run' = [run EXCEPT !.phase = "failed", !.error = NotInitializedError]
       ELSE run' = [run EXCEPT !.phase = "processing", !.next = 1,
                               !.topicsToContracts = <<>>, !.details = <<>>,
                               !.error = "none"]
    /\ UNCHANGED <<pc, event, rootEntity, writes, files, param, typeDetails,
                   nameCalls, generator, emitted, migrationVars, extraVars>>

\* One turn of the loop of processArtifacts: processContractABI.
processContractABI ==
    /\ Running
    /\ run.next <= Len(run.contracts)
    /\ LET contractInfo == run.contracts[run.next]
           events == extractEventDetails(contractInfo.abi)
       IN  /\ emitted' = [emitted EXCEPT
                             !.abis = writeContractABI(@, contractInfo)]
           /\ run' = [run EXCEPT
                         !.next = @ + 1,
                         !.topicsToContracts =
                             updateTopicsMapping(events, contractInfo.contractName, @),
                         !.details =
                             Append(@, [contractName |-> contractInfo.contractName,
                                        events |-> events])]
    /\ UNCHANGED <<pc, event, rootEntity, writes, files, param, typeDetails,
                   nameCalls, generator, migrationVars, extraVars>>

\* processArtifacts returns the contracts (the registry is a local of it and
\* goes out of scope), then generateEntities writes the entity files.
generateEntities ==
    /\ Running
    /\ run.next > Len(run.contracts)
    /\ LET written == EntitiesWrites(AllEvents(run.details))
       IN  /\ writes' = written
           /\ files' = WriteFiles(files, written)
    /\ run' = [run EXCEPT !.phase = "generated"]
    /\ UNCHANGED <<pc, event, rootEntity, param, typeDetails, nameCalls,
                   generator, emitted, migrationVars, extraVars>>

InitGenerator ==
    /\ pc = "ready"
    /\ event = NoEvent
    /\ rootEntity = <<>>
    /\ writes = <<>>
    /\ files = EmptyDir
    /\ param = NoParam
    /\ typeDetails = NotClassified
    /\ nameCalls = <<>>
    /\ generator = NewGenerator
    /\ run \in {[NoRun EXCEPT !.contracts = contracts] : contracts \in ContractConfigs}
    /\ emitted = NothingEmitted
    /\ NoMigration
    /\ NoExtra

NextGenerator ==
    \/ Initialize
    \/ XxhashResolves
    \/ XxhashRejects
    \/ Generate
    \/ processContractABI
    \/ generateEntities

SpecGenerator == InitGenerator /\ [][NextGenerator]_vars

----------------------------------------------------------------------------
(* The migration generator: a disposable engine, the schema statements, the
   schema-aware rewriting, the migration file *)

MaxTables == 2

TableNameList == <<<<"t", "1">>, <<"t", "2">>, <<"t", "3">>, <<"t", "4">>>>

SchemaNames == {<<"public">>, <<"DB_SCHEMA">>}

SchemaVariableOptions == {"omitted", "false", "true"}

\* config.migrations: absent, or {path, migrationName, schemaName} with the
\* schemaVariable option the README documents.
MigrationConfigs ==
    {NoMigrationsConfig} \cup
    {[configured |-> TRUE, migrationName |-> <<"InitialSchema">>,
      schemaName |-> s, schemaVariable |-> v] :
        s \in SchemaNames, v \in SchemaVariableOptions}

\* The entity classes of the entities directory as the engine sees them: a
\* table each, a child entity's table with a foreign key to its parent's.
EntitiesOfSize(n) ==
    {[i \in 1..n |-> [table |-> TableNameList[i], parent |-> parents[i]]] :
        parents \in {ps \in [1..n -> {<<>>} \cup {TableNameList[k] : k \in 1..n}] :
                        \A i \in 1..n :
                           ps[i] # <<>> => \E k \in 1..(i - 1) : ps[i] = TableNameList[k]}}

EntitySets == UNION {EntitiesOfSize(n) : n \in 0..MaxTables}

\* A statement is the sequence of its words and quoted identifiers.
W(text) == [kind |-> "word", text |-> <<text>>]

Q(identifier) == [kind |-> "quoted", text |-> identifier]

IsQuoted(token) == token.kind = "quoted" /\ token.text # <<>>

HasParent(entity) == entity.parent # <<>>

ForeignKeyName(entity) == <<"F", "K", "_">> \o entity.table

\* The statements of the engine's schema builder for a database without
\* tables: up, the tables and then their foreign keys; down, the statement
\* undoing each, in the same positions.
CreateTableSql(entity) == <<W("CREATE"), W("TABLE"), Q(entity.table), W("(...)")>>

DropTableSql(entity) == <<W("DROP"), W("TABLE"), Q(entity.table)>>

CreateForeignKeySql(entity) ==
    <<W("ALTER"), W("TABLE"), Q(entity.table), W("ADD"), W("CONSTRAINT"),
      Q(ForeignKeyName(entity)), W("FOREIGN KEY"), W("(...)"), W("REFERENCES"),
      Q(entity.parent), W("(...)")>>

DropForeignKeySql(entity) ==
    <<W("ALTER"), W("TABLE"), Q(entity.table), W("DROP"), W("CONSTRAINT"),
      Q(ForeignKeyName(entity))>>

SchemaBuilderLog(entities) ==
    LET children == SelectSeq(entities, HasParent)
    IN  [upQueries   |-> [i \in 1..Len(entities) |-> CreateTableSql(entities[i])]
                         \o [i \in 1..Len(children) |-> CreateForeignKeySql(children[i])],
         downQueries |-> [i \in 1..Len(entities) |-> DropTableSql(entities[i])]
                         \o [i \in 1..Len(children) |-> DropForeignKeySql(children[i])]]

\* query.replace(/CREATE TABLE "([^"]+)"/g, `CREATE TABLE "${schemaName}"."$1"`)
RECURSIVE ReplaceCreateTable(_, _)
ReplaceCreateTable(query, schemaName) ==
    IF query = <<>> THEN <<>>
    ELSE IF /\ Len(query) >= 3
            /\ query[1] = W("CREATE")
            /\ query[2] = W("TABLE")
            /\ IsQuoted(query[3])
         THEN <<W("CREATE"), W("TABLE"), Q(schemaName), W("."), query[3]>>
              \o ReplaceCreateTable(SubSeq(query, 4, Len(query)), schemaName)
         ELSE <<Head(query)>> \o ReplaceCreateTable(Tail(query), schemaName)

\* query.replace(/ALTER TABLE( ONLY)? "([^"]+)"/g, `ALTER TABLE$1 "${schemaName}"."$2"`)
RECURSIVE ReplaceAlterTable(_, _)
ReplaceAlterTable(query, schemaName) ==
    IF query = <<>> THEN <<>>
    ELSE IF /\ Len(query) >= 3
            /\ query[1] = W("ALTER")
            /\ query[2] = W("TABLE")
            /\ IsQuoted(query[3])
         THEN <<W("ALTER"), W("TABLE"), Q(schemaName), W("."), query[3]>>
              \o ReplaceAlterTable(SubSeq(query, 4, Len(query)), schemaName)
         ELSE IF /\ Len(query) >= 4
                 /\ query[1] = W("ALTER")
                 /\ query[2] = W("TABLE")
                 /\ query[3] = W("ONLY")
                 /\ IsQuoted(query[4])
              THEN <<W("ALTER"), W("TABLE"), W("ONLY"), Q(schemaName), W("."), query[4]>>
                   \o ReplaceAlterTable(SubSeq(query, 5, Len(query)), schemaName)
              ELSE <<Head(query)>> \o ReplaceAlterTable(Tail(query), schemaName)

\* query.replace(/DROP TABLE "([^"]+)"/g,
\*               `DROP TABLE IF EXISTS "${schemaName}"."$1" CASCADE`)
RECURSIVE ReplaceDropTable(_, _)
ReplaceDropTable(query, schemaName) ==
    IF query = <<>> THEN <<>>
    ELSE IF /\ Len(query) >= 3
            /\ query[1] = W("DROP")
            /\ query[2] = W("TABLE")
            /\ IsQuoted(query[3])
         THEN <<W("DROP"), W("TABLE"), W("IF"), W("EXISTS"), Q(schemaName), W("."),
                query[3], W("CASCADE")>>
              \o ReplaceDropTable(SubSeq(query, 4, Len(query)), schemaName)
         ELSE <<Head(query)>> \o ReplaceDropTable(Tail(query), schemaName)

\* sqlInMemory.upQueries.map(...)
UpQueries(sqlInMemory, schemaName) ==
    [i \in 1..Len(sqlInMemory.upQueries) |->
        ReplaceAlterTable(ReplaceCreateTable(sqlInMemory.upQueries[i], schemaName),
                          schemaName)]

\* sqlInMemory.downQueries.map(...)
DownQueries(sqlInMemory, schemaName) ==
    [i \in 1..Len(sqlInMemory.downQueries) |->
        ReplaceDropTable(sqlInMemory.downQueries[i], schemaName)]

\* The migration file: the class of `name`, the CREATE SCHEMA preamble and
\* the up queries in up(), the down queries in down().
MigrationFile(sqlInMemory, config) ==
    [written  |-> TRUE,
     name     |-> config.migrationName,
     preamble |-> <<W("CREATE"), W("SCHEMA"), W("IF"), W("NOT"), W("EXISTS"),
                    Q(config.schemaName)>>,
     up       |-> UpQueries(sqlInMemory, config.schemaName),
     down     |-> DownQueries(sqlInMemory, config.schemaName)]

\* DataSource.initialize(): driver.connect() fails before the engine runs; or
\* the engine runs, isInitialized is set and building the metadata of the
\* entity files fails, on which initialize() destroys the engine itself; or
\* it succeeds.
InitializeOutcomes == {"ok", "connect", "metadata"}

InitializedDataSource(outcome) ==
    IF outcome = "ok" THEN [isInitialized |-> TRUE, engine |-> "running"]
    ELSE IF outcome = "metadata" THEN [isInitialized |-> FALSE, engine |-> "destroyed"]
    ELSE [isInitialized |-> FALSE, engine |-> "notStarted"]

\* try { ... } finally { ... }: a step that throws leaves the try block.
IgnoreFailure(failed, next) == next

AfterStep(failed, next) == IF failed THEN "finally" ELSE next

\* if (dataSource.isInitialized) await dataSource.destroy()
NeverDestroy(ds) == FALSE

MustDestroy(ds) == ds.isInitialized

\* generate(config) up to its first await: without `migrations` it returns;
\* otherwise it lists the entity files, creates the DataSource and awaits
\* dataSource.initialize().
StartMigration(entities) ==
    IF ~migration.config.configured
    THEN /\ migration' = [migration EXCEPT !.phase = "returned"]
         /\ UNCHANGED dataSource
    ELSE /\ migration' = [migration EXCEPT !.phase = "initializing",
                                            !.entities = entities]
         /\ dataSource' = NewDataSource

MigrationGenerate ==
    /\ caller.phase = "idle"
    /\ migration.phase = "idle"
    /\ StartMigration(migration.entities)
    /\ UNCHANGED <<pc, event, rootEntity, writes, files, param, typeDetails,
                   nameCalls, generatorVars, caller, extraVars>>

\* await dataSource.initialize() settles.
DataSourceInitialize ==
    /\ migration.phase = "initializing"
    /\ \E outcome \in InitializeOutcomes :
          /\ dataSource' = InitializedDataSource(outcome)
          /\ migration' = [migration EXCEPT
                              !.phase = AfterStep(outcome # "ok", "logging"),
                              !.error = IF outcome = "ok" THEN "none" ELSE outcome]
    /\ UNCHANGED <<pc, event, rootEntity, writes, files, param, typeDetails,
                   nameCalls, generatorVars, caller, extraVars>>

LogOutcomes == {"ok", "log", "write"}

\* await createSchemaBuilder().log() settles; on success the queries are
\* rewritten and the file is written in the same turn (mkdirSync and
\* writeFileSync may throw).
SchemaBuilderLogs ==
    /\ migration.phase = "logging"
    /\ \E outcome \in LogOutcomes :
          LET sqlInMemory == SchemaBuilderLog(migration.entities)
          IN  migration' =
                 [migration EXCEPT
                     !.phase = "finally",
                     !.sqlInMemory = IF outcome = "log" THEN @ ELSE sqlInMemory,
                     !.file = IF outcome = "ok"
                              THEN MigrationFile(sqlInMemory, migration.config)
                              ELSE @,
                     !.error = IF outcome = "ok" THEN @ ELSE outcome]
    /\ UNCHANGED <<pc, event, rootEntity, writes, files, param, typeDetails,
                   nameCalls, generatorVars, dataSource, caller, extraVars>>

\* The finally block, after which the call returns or throws.
Finally ==
    /\ migration.phase = "finally"
    /\ dataSource' = IF MustDestroy(dataSource)
                     THEN [isInitialized |-> FALSE, engine |-> "destroyed"]
                     ELSE dataSource
    /\ migration' = [migration EXCEPT
                        !.phase = IF migration.error = "none" THEN "returned"
                                  ELSE "threw"]
    /\ UNCHANGED <<pc, event, rootEntity, writes, files, param, typeDetails,
                   nameCalls, generatorVars, caller, extraVars>>

InitMigration ==
    /\ pc = "ready"
    /\ event = NoEvent
    /\ rootEntity = <<>>
    /\ writes = <<>>
    /\ files = EmptyDir
    /\ param = NoParam
    /\ typeDetails = NotClassified
    /\ nameCalls = <<>>
    /\ NoGenerator
    /\ dataSource = NewDataSource
    /\ migration \in {[NoMigrationCall EXCEPT !.config = c, !.entities = es] :
                         c \in MigrationConfigs, es \in EntitySets}
    /\ caller = NoCaller
    /\ NoExtra

NextMigration ==
    \/ MigrationGenerate
    \/ DataSourceInitialize
    \/ SchemaBuilderLogs
    \/ Finally

SpecMigration == InitMigration /\ [][NextMigration]_vars

----------------------------------------------------------------------------
(* The classifier and the generator on array-of-array types *)

\* The sizes of a dimension: '[]', '[2]', '[3]'.
DimensionSizes == {-1, 2, 3}

\* `${underlyingType}${typeSize}${suffix}${suffix}`, as in uint256[][] or
\* tuple[2][3].
NestedTypeString(underlyingType, typeSize, inner, outer) ==
    TypeString(underlyingType, typeSize, inner) \o TypeString(<<>>, 0, outer)

NestedTypeParams ==
    {[name       |-> ParamName,
      type       |-> NestedTypeString(b[1], b[2], inner, outer),
      components |-> IF b[1] = TupleType THEN TupleComponents ELSE <<>>] :
        b \in BaseTypes, inner \in DimensionSizes, outer \in DimensionSizes}

InitNested ==
    /\ pc = "ready"
    /\ param \in NestedTypeParams
    /\ event = [eventName |-> <<"E","v">>, compressedTopic |-> <<"c","0">>,
                inputs |-> <<param>>]
    /\ rootEntity = <<>>
    /\ writes = <<>>
    /\ files = EmptyDir
    /\ typeDetails = NotClassified
    /\ nameCalls = <<>>
    /\ NoGenerator
    /\ NoMigration
    /\ NoExtra

NextNested == Classify \/ GenerateEntities

SpecNested == InitNested /\ [][NextNested]_vars

----------------------------------------------------------------------------
(* generateTypeOrmFiles: the generators in turn, the migration not awaited *)

\* processArtifacts over all contracts: the ContractDetails it returns.
ContractDetailsOf(contracts) ==
    [i \in 1..Len(contracts) |->
        [contractName |-> contracts[i].contractName,
         events       |-> extractEventDetails(contracts[i].abi)]]

RECURSIVE AbisWritten(_, _)
AbisWritten(contracts, abis) ==
    IF contracts = <<>> THEN abis
    ELSE AbisWritten(Tail(contracts), writeContractABI(abis, Head(contracts)))

RECURSIVE TopicsMappingOf(_, _)
TopicsMappingOf(details, topicsToContracts) ==
    IF details = <<>> THEN topicsToContracts
    ELSE TopicsMappingOf(Tail(details),
                         updateTopicsMapping(Head(details).events,
                                             Head(details).contractName,
                                             topicsToContracts))

\* fs.readdirSync(entitiesPath) filtered to the entity files: a table for
\* the entity class of each file.
RECURSIVE EntityFiles(_)
EntityFiles(names) ==
    IF names = {} THEN <<>>
    ELSE LET f == CHOOSE n \in names : TRUE
         IN  <<[table |-> f, parent |-> <<>>]>> \o EntityFiles(names \ {f})

BaseEntityFile == <<"BlockchainEventEntity">>

ConstantsFile == <<"constants">>

IndexFile == <<"index">>

\* The id of an entity file for the UML generator: what follows the
\* underscore of its name (idPattern).
UmlIdOf(file) ==
    SubSeq(file, SetMin({i \in 1..Len(file) : file[i] = "Entity_"}) + 1, Len(file))

OrmConfigFile(id) == <<"ormconfig_">> \o id \o <<".json">>

\* The temporary configurations umlGenerator.generate writes into the
\* entities directory: one per id, and one for all the entities.
OrmConfigFiles(entityFiles) ==
    {OrmConfigFile(UmlIdOf(f)) : f \in entityFiles} \cup {OrmConfigFile(<<"all">>)}

\* umlGenerator.generate(config) up to its first await: without `docs` it
\* returns; otherwise it writes the temporary configurations and awaits the
\* diagrams.
StartUml(entityFiles) ==
    IF ~uml.docs
    THEN uml' = [uml EXCEPT !.phase = "returned"]
    ELSE uml' = [uml EXCEPT !.phase = "building",
                            !.temporaryFiles = OrmConfigFiles(entityFiles)]

\* The entities directory as readdirSync of the migration generator finds
\* it: the generators called before it have returned.
EntitiesDirectoryAtStart(atStart, afterGenerators) == atStart

EntitiesDirectoryAtScan(atStart, afterGenerators) == afterGenerators

\* The promise of generateTypeOrmFiles is no longer pending.
CallerHasSettled == caller.phase \in {"resolved", "rejected"}

\* generateTypeOrmFiles(config) up to its first await: the output directory
\* is cleared, the base entity is written and queued for linting, and
\* entityGenerator.initialize() is awaited.
GenerateTypeOrmFiles ==
    /\ caller.phase = "idle"
    /\ caller' = [caller EXCEPT !.phase = "initializing"]
    /\ files' = EmptyDir
    /\ emitted' = NothingEmitted
    /\ generator' = [NewGenerator EXCEPT !.initializing = TRUE]
    /\ lint' = [lint EXCEPT !.disk = {BaseEntityFile},
                            !.filesToLint = @ \cup {BaseEntityFile},
                            !.linted = {},
                            !.runs = @ + 1]
    /\ UNCHANGED <<pc, event, rootEntity, writes, param, typeDetails, nameCalls,
                   run, dataSource, migration, signature, uml, invocations>>

\* initialize() rejects: so does generateTypeOrmFiles.
FilesInitializeRejects ==
    /\ caller.phase = "initializing"
    /\ generator' = [generator EXCEPT !.initializing = FALSE]
    /\ caller' = [phase |-> "rejected", error |-> "xxhash"]
    /\ UNCHANGED <<pc, event, rootEntity, writes, files, param, typeDetails,
                   nameCalls, run, emitted, dataSource, migration, extraVars>>

\* initialize() resolves: the entities, the constants and the index are
\* generated, the migration generator and the UML generator are started and
\* not awaited, and lintFiles() is called over the queue and awaited.
FilesGenerate(details, written) ==
    /\ caller.phase = "initializing"
    /\ generator' = [xxHashInstance |-> TRUE, initializing |-> FALSE]
    /\ run' = [run EXCEPT !.phase = "generated",
                          !.next = Len(run.contracts) + 1,
                          !.details = details,
                          !.topicsToContracts = TopicsMappingOf(details, <<>>)]
    /\ emitted' = [emitted EXCEPT !.abis = AbisWritten(run.contracts, @)]
    /\ writes' = written
    /\ files' = WriteFiles(files, written)
    /\ StartMigration(EntityFiles(DOMAIN EntitiesDirectoryAtScan(
                                             files, WriteFiles(files, written))))
    /\ StartUml(DOMAIN WriteFiles(files, written))
    /\ lint' = [lint EXCEPT
                   !.disk = @ \cup DOMAIN WriteFiles(files, written)
                              \cup {ConstantsFile, IndexFile},
                   !.filesToLint = @ \cup DOMAIN WriteFiles(files, written)
                                     \cup {ConstantsFile},
                   !.linted = lint.filesToLint \cup DOMAIN WriteFiles(files, written)
                                               \cup {ConstantsFile}]
    /\ caller' = [caller EXCEPT !.phase = "linting"]
    /\ UNCHANGED <<pc, event, rootEntity, param, typeDetails, nameCalls, signature,
                   invocations>>

FilesInitialized ==
    FilesGenerate(ContractDetailsOf(run.contracts),
                  EntitiesWrites(AllEvents(ContractDetailsOf(run.contracts))))

LintOutcomes == {"ok", "lint"}

\* ESLint.lintFiles rejects for a path that matches no file.
OutcomesOfLint(linted, disk) ==
    IF linted \subseteq disk THEN LintOutcomes ELSE {"NoFilesFound"}

\* One diagram promise settles (generateUmlForEntities catches its errors):
\* its finally block removes the temporary configuration.
UmlPromiseSettles ==
    /\ uml.phase = "building"
    /\ \E f \in uml.temporaryFiles :
          uml' = [uml EXCEPT !.temporaryFiles = @ \ {f},
                             !.phase = IF uml.temporaryFiles = {f} THEN "done" ELSE @]
    /\ UNCHANGED <<pc, event, rootEntity, writes, files, param, typeDetails,
                   nameCalls, generatorVars, migrationVars, signature, lint, invocations>>

\* await lintFiles() settles, and with it the promise of generateTypeOrmFiles.
LintSettles ==
    /\ caller.phase = "linting"
    /\ \E outcome \in OutcomesOfLint(lint.linted, lint.disk) :
          caller' = IF outcome = "ok"
                    THEN [caller EXCEPT !.phase = "resolved"]
                    ELSE [phase |-> "rejected", error |-> outcome]
    /\ UNCHANGED <<pc, event, rootEntity, writes, files, param, typeDetails,
                   nameCalls, generatorVars, dataSource, migration, extraVars>>

\* A contract whose event has an array of tuples as its parameter.
NestedEventContract ==
    <<[contractName |-> ContractNameList[1],
       abi |-> <<[type |-> "event", name |-> <<"A">>,
                  inputs |-> <<[name |-> ParamName, type |-> TypeString(TupleType, 0, -1),
                                components |-> TupleComponents]>>]>>]>>

InitFiles ==
    /\ pc = "ready"
    /\ event = NoEvent
    /\ rootEntity = <<>>
    /\ writes = <<>>
    /\ files = EmptyDir
    /\ param = NoParam
    /\ typeDetails = NotClassified
    /\ nameCalls = <<>>
    /\ generator = NewGenerator
    /\ run \in {[NoRun EXCEPT !.contracts = contracts] :
                   contracts \in ContractsOfSize(1) \cup {NestedEventContract}}
    /\ emitted = NothingEmitted
    /\ dataSource = NewDataSource
    /\ migration \in {[NoMigrationCall EXCEPT !.config = c] : c \in MigrationConfigs}
    /\ caller = NoCaller
    /\ signature = <<>>
    /\ lint = NoLint
    /\ uml \in {[NoUml EXCEPT !.docs = docs] : docs \in BOOLEAN}
    /\ invocations = <<>>

NextFiles ==
    \/ GenerateTypeOrmFiles
    \/ FilesInitializeRejects
    \/ FilesInitialized
    \/ LintSettles
    \/ UmlPromiseSettles
    \/ DataSourceInitialize
    \/ SchemaBuilderLogs
    \/ Finally

SpecFiles == InitFiles /\ [][NextFiles]_vars

----------------------------------------------------------------------------
(* getFullEventSignature *)

Parenthesized(text) == <<"(">> \o text \o <<")">>

\* input.type.startsWith('tuple[')
StartsWithTupleBracket(type) ==
    Len(type) > Len(TupleType) /\ SubSeq(type, 1, Len(TupleType) + 1) = TupleType \o <<"[">>

\* input.type.match(/\[(.*?)\]/): the text between the first '[' and the first
\* ']' after it; `[${match[1]}]`, or '[]' without a match.
ArraySuffix(type) ==
    LET opens == {i \in 1..Len(type) :
                     type[i] = "[" /\ \E j \in (i + 1)..Len(type) : type[j] = "]"}
    IN  IF opens = {} THEN <<"[", "]">>
        ELSE LET i == SetMin(opens)
                 j == SetMin({k \in (i + 1)..Len(type) : type[k] = "]"})
             IN  <<"[">> \o SubSeq(type, i + 1, j - 1) \o <<"]">>

RECURSIVE expandType(_)
RECURSIVE ExpandTypes(_)

\* inputs.map(expandType).join(',')
ExpandTypes(inputs) ==
    IF inputs = <<>> THEN <<>>
    ELSE IF Len(inputs) = 1 THEN expandType(inputs[1])
    ELSE expandType(inputs[1]) \o <<",">> \o ExpandTypes(Tail(inputs))

expandType(input) ==
    IF input.type = TupleType
    THEN Parenthesized(ExpandTypes(input.components))
    ELSE IF StartsWithTupleBracket(input.type)
         THEN Parenthesized(ExpandTypes(input.components)) \o ArraySuffix(input.type)
         ELSE input.type

getFullEventSignature(eventFragment) ==
    eventFragment.name \o Parenthesized(ExpandTypes(eventFragment.inputs))

\* One call of getFullEventSignature on the fragment of the event.
GetFullEventSignature ==
    /\ signature = <<>>
    /\ signature' = getFullEventSignature([name |-> event.eventName,
                                           inputs |-> event.inputs])
    /\ UNCHANGED <<pc, event, rootEntity, writes, files, param, typeDetails,
                   nameCalls, generatorVars, migrationVars, lint, uml, invocations>>

\* The events of the trees and the events of one field of every type, with
\* one array suffix or two.
SignatureEvents ==
    {[eventName |-> nm, compressedTopic |-> <<"c","0">>, inputs |-> ins] :
        nm \in EventNames, ins \in EventInputs}
    \cup {[eventName |-> <<"E","v">>, compressedTopic |-> <<"c","0">>, inputs |-> <<p>>] :
             p \in TypeParams \cup NestedTypeParams}

InitSignature ==
    /\ pc = "ready"
    /\ event \in SignatureEvents
    /\ rootEntity = <<>>
    /\ writes = <<>>
    /\ files = EmptyDir
    /\ param = NoParam
    /\ typeDetails = NotClassified
    /\ nameCalls = <<>>
    /\ NoGenerator
    /\ NoMigration
    /\ NoExtra

NextSignature == GetFullEventSignature

SpecSignature == InitSignature /\ [][NextSignature]_vars

----------------------------------------------------------------------------
(* transformConfig: the contracts of the configuration, each ABI passed
   through the contract's filterEvents when it has one *)

\* JsonFragment of a function: an ABI item that is not an event.
FunctionFragment(nm) == [type |-> "function", name |-> nm, inputs |-> <<>>]

AbiItems == {EventFragment(nm) : nm \in AbiEventNames} \cup {FunctionFragment(<<"f">>)}

\* ABIs as compiled: events and functions, in any order.
RawAbis == {<<>>} \cup {<<a>> : a \in AbiItems} \cup {<<a, b>> : a, b \in AbiItems}

\* The filterEvents functions of the configurations explored: none, or
\* (abi) => abi.filter(item => item.name !== 'A')
FilterOptions == {"undefined", "removeA"}

RemoveA(item) == item.name # <<"A">>

KeepAbi(filterEvents, abi) == abi

\* value.filterEvents ? value.filterEvents(value.abi) : value.abi
ApplyFilterEvents(filterEvents, abi) ==
    IF filterEvents = "undefined" THEN abi ELSE SelectSeq(abi, RemoveA)

\* Object.entries(contracts).map(([key, value]) => ({contractName: key, abi: ...}))
transformConfig(contracts) ==
    [i \in 1..Len(contracts) |->
        [contractName |-> contracts[i].contractName,
         abi |-> ApplyFilterEvents(contracts[i].filterEvents, contracts[i].abi)]]

\* Config.contracts with two contracts, in the order of their keys.
RawConfigs ==
    {[i \in 1..2 |-> [contractName |-> ContractNameList[i], abi |-> abis[i],
                      filterEvents |-> filters[i]]] :
        abis \in [1..2 -> RawAbis], filters \in [1..2 -> FilterOptions]}

\* generateTypeOrmFiles: const transformedConfig = transformConfig(config)
TransformConfig ==
    /\ run.phase = "configured"
    /\ run' = [run EXCEPT !.phase = "idle", !.contracts = transformConfig(run.config)]
    /\ UNCHANGED <<pc, event, rootEntity, writes, files, param, typeDetails,
                   nameCalls, generator, emitted, migrationVars, extraVars>>

InitConfig ==
    /\ pc = "ready"
    /\ event = NoEvent
    /\ rootEntity = <<>>
    /\ writes = <<>>
    /\ files = EmptyDir
    /\ param = NoParam
    /\ typeDetails = NotClassified
    /\ nameCalls = <<>>
    /\ generator = NewGenerator
    /\ run \in {[NoRun EXCEPT !.phase = "configured", !.config = config] :
                   config \in RawConfigs}
    /\ emitted = NothingEmitted
    /\ NoMigration
    /\ NoExtra

NextConfig ==
    \/ TransformConfig
    \/ Initialize
    \/ XxhashResolves
    \/ XxhashRejects
    \/ Generate
    \/ processContractABI
    \/ generateEntities

SpecConfig == InitConfig /\ [][NextConfig]_vars

----------------------------------------------------------------------------
(* generateTypeOrmEntity called repeatedly in one process *)

MaxInvocations == 3

\* Events of one parameter named 'a' (a primitive, a fixed array, a tuple or
\* an array of tuples over one component), and the event without parameters.
RepeatEvents ==
    {[eventName |-> nm, compressedTopic |-> <<"c", "0">>, inputs |-> ins] :
        nm \in EventNames,
        ins \in {<<>>} \cup {<<p>> : p \in {q \in ParamsOfSize(1) \cup ParamsOfSize(2) :
                                                q.name = <<"a">>}}}

\* fs.writeFileSync replaces a file that exists: what a call writes does not
\* depend on the directory it finds.
SkipExisting(dir, written) == SelectSeq(written, LAMBDA w : w.file \notin DOMAIN dir)

WrittenOver(dir, written) == written

\* One more event is generated in the process: the root call of
\* generateTypeOrmEntity and the root file, into the directory the earlier
\* calls left.
GenerateAgain(e, entity) ==
    /\ Len(invocations) < MaxInvocations
    /\ event' = e
    /\ WriteEvent(entity,
                  WrittenOver(files,
                              EventWrites(entity,
                                          generateTypeOrmEntityName(e.eventName,
                                                                    e.compressedTopic))))
    /\ invocations' = Append(invocations,
                             [event  |-> e,
                              output |-> entity.output,
                              thrown |-> entity.thrown,
                              writes |-> writes'])
    /\ UNCHANGED <<param, typeDetails, nameCalls, generatorVars, migrationVars,
                   signature, lint, uml>>

GenerateRepeatedly == \E e \in RepeatEvents : GenerateAgain(e, EventEntity(e))

InitRepeat ==
    /\ pc = "ready"
    /\ event = NoEvent
    /\ rootEntity = <<>>
    /\ writes = <<>>
    /\ files = EmptyDir
    /\ param = NoParam
    /\ typeDetails = NotClassified
    /\ nameCalls = <<>>
    /\ NoGenerator
    /\ NoMigration
    /\ NoExtra

NextRepeat == GenerateRepeatedly

SpecRepeat == InitRepeat /\ [][NextRepeat]_vars

----------------------------------------------------------------------------
(* generateTypeOrmFiles called again in the same process *)

MaxRuns == 2

\* The promise of a run has settled and the process calls generateTypeOrmFiles
\* again, with a configuration of its choice; the module-level lint queue is
\* the one the earlier runs left.
CallAgain ==
    /\ CallerHasSettled
    /\ lint.runs < MaxRuns
    /\ caller' = NoCaller
    /\ \E contracts \in ContractsOfSize(1) :
          run' = [NoRun EXCEPT !.contracts = contracts]
    /\ UNCHANGED <<pc, event, rootEntity, writes, files, param, typeDetails,
                   nameCalls, generator, emitted, dataSource, migration, extraVars>>

\* Runs without `migrations` and without `docs`.
InitRuns ==
    /\ pc = "ready"
    /\ event = NoEvent
    /\ rootEntity = <<>>
    /\ writes = <<>>
    /\ files = EmptyDir
    /\ param = NoParam
    /\ typeDetails = NotClassified
    /\ nameCalls = <<>>
    /\ generator = NewGenerator
    /\ run \in {[NoRun EXCEPT !.contracts = contracts] : contracts \in ContractsOfSize(1)}
    /\ emitted = NothingEmitted
    /\ NoMigration
    /\ NoExtra

NextRuns ==
    \/ GenerateTypeOrmFiles
    \/ FilesInitializeRejects
    \/ FilesInitialized
    \/ LintSettles
    \/ CallAgain

SpecRuns == InitRuns /\ [][NextRuns]_vars

----------------------------------------------------------------------------
(* Events whose names have more than one word *)

WordyName == <<"a", "_", "a", "B">>

RelationEventNames == {<<"A">>, WordyName}

RelationFieldNames == {<<"a">>, <<"b">>, ParamName, WordyName}

RelationLeaves ==
    {[name |-> nm, type |-> ty, components |-> <<>>] :
        nm \in RelationFieldNames, ty \in LeafTypes}

RelationTuples(components) ==
    {[name |-> nm, type |-> ty, components |-> <<c>>] :
        nm \in RelationFieldNames, ty \in TupleTypes, c \in components}

\* One parameter: a primitive, a fixed array, or a tuple or array of tuples
\* over one component, itself a primitive, an array or a tuple over one leaf.
RelationParams ==
    RelationLeaves \cup RelationTuples(RelationLeaves \cup RelationTuples(RelationLeaves))

InitRelations ==
    /\ pc = "ready"
    /\ event \in {[eventName |-> nm, compressedTopic |-> <<"c","0">>, inputs |-> <<p>>] :
                     nm \in RelationEventNames, p \in RelationParams}
    /\ rootEntity = <<>>
    /\ writes = <<>>
    /\ files = EmptyDir
    /\ param = NoParam
    /\ typeDetails = NotClassified
    /\ nameCalls = <<>>
    /\ NoGenerator
    /\ NoMigration
    /\ NoExtra

NextRelations == GenerateEntities

SpecRelations == InitRelations /\ [][NextRelations]_vars

----------------------------------------------------------------------------
(* Properties of the type classifier (under SpecTypes) *)

Classified == typeDetails # NotClassified

\* The parts the classified type string was written from.
Written == CHOOSE t \in TypeTable : t.type = param.type

\* C8: for every type string made of a base type name, an optional width and
\* at most one array suffix, getTypeDetails returns fullType equal to the
\* input, underlyingType equal to the leading alphabetic run, and arraySize
\* 0 without a suffix, -1 for '[]' and n for '[n]', for every n >= 1.
C8_FullTypeUnderlyingTypeArraySize ==
    Classified =>
        /\ typeDetails.fullType = param.type
        /\ typeDetails.underlyingType = Written.underlyingType
        /\ typeDetails.arraySize = Written.arraySize

\* A fixed array of two-digit size has been classified.
C8_TwoDigitArrayClassified ==
    /\ Classified
    /\ Written.arraySize = 10
    /\ Written.underlyingType = BytesType
    /\ Written.typeSize = 32
    /\ typeDetails.arraySize = 10

\* C9: getTypeDetails reports typeSize equal to the declared width for sized
\* types (uintN, intN, bytesN) and no typeSize for types without a width
\* (bool, string, address, dynamic bytes, tuple), for every array
\* cardinality: none, '[]', and '[n]' for every n >= 1 of any number of digits.
C9_TypeSizeIsDeclaredWidth ==
    Classified =>
        IF Written.typeSize # 0
        THEN HasTypeSize(typeDetails)
             /\ typeDetails.typeSize = NumberToString(Written.typeSize)
        ELSE ~HasTypeSize(typeDetails)

\* An unsized type in a fixed array of two-digit size has been classified
\* and carries a typeSize: the first digit of the array size.
C9_ArraySizeDigitTakenForWidth ==
    /\ Classified
    /\ param.type = TypeString(AddressType, 0, 10)
    /\ HasTypeSize(typeDetails)
    /\ typeDetails.typeSize = <<"1">>

----------------------------------------------------------------------------
(* Properties of the column mapper and of primitive arrays (under SpecTypes: *)
(* the event has the one field `param`)                                      *)

IsColumn(member) == member.kind = "column"

IsRelation(member) == member.kind = "relation"

Columns(text) == SelectSeq(text, IsColumn)

Relations(text) == SelectSeq(text, IsRelation)

\* The width the field's type was written with, as generateTypeOrmColumn takes it.
WrittenTypeSize ==
    IF Written.typeSize = 0 THEN <<>> ELSE NumberToString(Written.typeSize)

\* The field of the event is a primitive array, and the run is over.
PrimitiveArrayGenerated ==
    /\ pc = "done"
    /\ Written.arraySize # 0
    /\ Written.underlyingType # TupleType

\* The field of the event is a plain primitive, and the run is over.
PrimitiveGenerated ==
    /\ pc = "done"
    /\ Written.arraySize = 0
    /\ Written.underlyingType # TupleType

SameColumnSpecification(column, other) ==
    /\ column.type = other.type
    /\ column.precision = other.precision
    /\ column.length = other.length
    /\ column.nullable = other.nullable
    /\ column.update = other.update
    /\ column.tsType = other.tsType

\* C5: for a primitive array field of type T[] or T[n] (T not a tuple) the
\* child node has exactly one data column and no child relations, and that
\* column has the column specification a non-array field of type T would get
\* (same storage type and, for uintN/intN, the precision constant of width N).
C5_PrimitiveArrayElementColumn ==
    PrimitiveArrayGenerated =>
        /\ Len(Columns(writes[1].text)) = 1
        /\ Relations(writes[1].text) = <<>>
        /\ SameColumnSpecification(
               Columns(writes[1].text)[1],
               generateTypeOrmColumn(camelcase(param.name),
                                     Written.underlyingType, WrittenTypeSize))

\* The child of a uint8[] field has been generated; its column has the
\* precision of a 256-bit integer.
C5_ElementWidthLost ==
    /\ PrimitiveArrayGenerated
    /\ param.type = TypeString(UintType, 8, -1)
    /\ Len(Columns(writes[1].text)) = 1
    /\ Columns(writes[1].text)[1].precision
           = <<"U","I","N","T","_","2","5","6","_MAX_DIGITS">>

\* C10: a column generated for an address field or a fixed-bytes field bytesN
\* carries a maximum length of 2 + 2*byteLength hex characters (42 for
\* address, 2 + 2N for bytesN); columns for dynamic bytes and string carry no
\* length bound.
C10_ColumnLengthBound ==
    PrimitiveGenerated =>
        /\ Len(Columns(rootEntity)) = 1
        /\ Written.underlyingType = AddressType =>
              /\ Columns(rootEntity)[1].length # NoValue
              /\ ConstantValue(Columns(rootEntity)[1].length) = 42
        /\ (Written.underlyingType = BytesType /\ Written.typeSize # 0) =>
              /\ Columns(rootEntity)[1].length # NoValue
              /\ ConstantValue(Columns(rootEntity)[1].length)
                     = 2 + 2 * Written.typeSize
        /\ (\/ Written.underlyingType = StringType
            \/ Written.underlyingType = BytesType /\ Written.typeSize = 0) =>
              Columns(rootEntity)[1].length = NoValue

\* The column of an address field has been generated with the length of 32
\* bytes (66 characters).
C10_AddressColumnLength66 ==
    /\ PrimitiveGenerated
    /\ Written.underlyingType = AddressType
    /\ Len(Columns(rootEntity)) = 1
    /\ Columns(rootEntity)[1].length # NoValue
    /\ ConstantValue(Columns(rootEntity)[1].length) = 66

----------------------------------------------------------------------------
(* Properties of the name synthesizer (under SpecNames) *)

BothNamesSynthesized ==
    /\ Len(nameCalls) = 2
    /\ nameCalls[1].done
    /\ nameCalls[2].done

\* C7: generateTypeOrmEntityName and generateTableName are functions of
\* (name, fingerprint): two calls with the same pair give the same entity
\* name and the same table name, and two calls with one name and two
\* different fingerprints give different entity names and different table
\* names.
C7_NamesFollowNameAndFingerprint ==
    (BothNamesSynthesized /\ nameCalls[1].name = nameCalls[2].name) =>
        IF nameCalls[1].topic = nameCalls[2].topic
        THEN /\ nameCalls[1].entity = nameCalls[2].entity
             /\ nameCalls[1].table = nameCalls[2].table
        ELSE /\ nameCalls[1].entity # nameCalls[2].entity
             /\ nameCalls[1].table # nameCalls[2].table

\* One name has been synthesized with two fingerprints.
C7_OneNameTwoFingerprints ==
    /\ BothNamesSynthesized
    /\ nameCalls[1].name = <<"a", "B">>
    /\ nameCalls[2].name = <<"a", "B">>
    /\ nameCalls[1].topic = <<"c", "0">>
    /\ nameCalls[2].topic = <<"d", "1">>
    /\ nameCalls[1].entity = <<"A", "B", "Entity_", "c", "0">>
    /\ nameCalls[2].table = <<"a", "_", "b", "_", "d", "1">>

----------------------------------------------------------------------------
(* The entity nodes of the event's tree, read off the event descriptor *)

HasArraySuffix(type) == Len(type) > 0 /\ type[Len(type)] = "]"

IsTupleTyped(type) == Len(type) >= 5 /\ SubSeq(type, 1, 5) = TupleType

BecomesRelation(type) == IsTupleTyped(type) \/ HasArraySuffix(type)

\* T of T[] or T[n].
ElementType(type) ==
    SubSeq(type, 1, SetMin({i \in 1..Len(type) : type[i] = "["}) - 1)

\* The fields of the child node of a relation field: the components of a
\* tuple, the one element of a primitive array.
SubFields(p) ==
    IF IsTupleTyped(p.type) THEN p.components
    ELSE <<[name |-> p.name, type |-> ElementType(p.type), components |-> <<>>]>>

\* The nodes created while descending into the fields ps of the node named
\* parentName, each after the nodes under it, in declaration order.
RECURSIVE NodesUnder(_, _)
NodesUnder(ps, parentName) ==
    IF ps = <<>> THEN <<>>
    ELSE (IF BecomesRelation(Head(ps).type)
          THEN NodesUnder(SubFields(Head(ps)), camelcase(Head(ps).name))
                   \o <<[name       |-> camelcase(Head(ps).name),
                         fields     |-> SubFields(Head(ps)),
                         array      |-> HasArraySuffix(Head(ps).type),
                         root       |-> FALSE,
                         parentName |-> parentName]>>
          ELSE <<>>)
         \o NodesUnder(Tail(ps), parentName)

\* Every node of the event, the root last: the order the files are written in.
EventNodes ==
    NodesUnder(event.inputs, camelcase(event.eventName))
        \o <<[name       |-> event.eventName,
              fields     |-> event.inputs,
              array      |-> FALSE,
              root       |-> TRUE,
              parentName |-> <<>>]>>

IsDataMember(member) == member.kind \in {"column", "relation"}

DataMembers(text) == SelectSeq(text, IsDataMember)

IsBackReference(member) == member.kind = "backref"

BackReferences(text) == SelectSeq(text, IsBackReference)

IsClass(member) == member.kind = "class"

ClassOf(text) == SelectSeq(text, IsClass)[1]

HasIdColumn(text) == \E i \in 1..Len(text) : text[i].kind = "id"

\* The run is over and wrote one file per node.
Generated == pc = "done" /\ Len(writes) = Len(EventNodes)

----------------------------------------------------------------------------
(* Properties of the entity tree *)

\* C2: for every field of every node, in declaration order: the field becomes
\* a relation to a child entity (and no column of the node) if and only if
\* its underlying type is tuple or its type has an array suffix; otherwise it
\* becomes exactly one column of the node and creates no child entity.
C2_RelationIffTupleOrArray ==
    pc = "done" =>
        /\ Len(writes) = Len(EventNodes)
        /\ \A k \in 1..Len(EventNodes) :
              /\ Len(DataMembers(writes[k].text)) = Len(EventNodes[k].fields)
              /\ \A i \in 1..Len(EventNodes[k].fields) :
                    /\ DataMembers(writes[k].text)[i].kind
                           = IF BecomesRelation(EventNodes[k].fields[i].type)
                             THEN "relation" ELSE "column"
                    /\ DataMembers(writes[k].text)[i].property
                           = camelcase(EventNodes[k].fields[i].name)

\* An event with a primitive field and a tuple field holding a primitive
\* array has been generated: three files, the root with one column and one
\* relation.
C2_ColumnArrayAndTupleGenerated ==
    /\ Generated
    /\ Len(event.inputs) = 2
    /\ event.inputs[1].type = TypeString(UintType, 8, 0)
    /\ event.inputs[2].type = TypeString(TupleType, 0, 0)
    /\ Len(event.inputs[2].components) = 1
    /\ event.inputs[2].components[1].type = TypeString(AddressType, 0, 2)
    /\ Len(writes) = 3
    /\ Len(DataMembers(rootEntity)) = 2
    /\ DataMembers(rootEntity)[1].kind = "column"
    /\ DataMembers(rootEntity)[2].kind = "relation"

\* C3: the relation a parent declares for a field is one-to-many (property
\* typed as an array of the child class) if and only if the field's type has
\* an array suffix, '[]' or '[n]', whether the element is a tuple or a
\* primitive; a plain tuple field yields a one-to-one relation.
C3_OneToManyIffArraySuffix ==
    Generated =>
        \A k \in 1..Len(EventNodes) :
            \A i \in 1..Len(EventNodes[k].fields) :
                BecomesRelation(EventNodes[k].fields[i].type) =>
                    /\ i <= Len(DataMembers(writes[k].text))
                    /\ DataMembers(writes[k].text)[i].kind = "relation"
                    /\ DataMembers(writes[k].text)[i].array
                           = HasArraySuffix(EventNodes[k].fields[i].type)
                    /\ DataMembers(writes[k].text)[i].decorator
                           = IF HasArraySuffix(EventNodes[k].fields[i].type)
                             THEN "OneToMany" ELSE "OneToOne"

\* A fixed array of tuples of two-digit size has been generated as a
\* one-to-many relation.
C3_FixedTupleArrayOneToMany ==
    /\ Generated
    /\ param.type = TypeString(TupleType, 0, 10)
    /\ Len(DataMembers(rootEntity)) = 1
    /\ DataMembers(rootEntity)[1].decorator = "OneToMany"
    /\ DataMembers(rootEntity)[1].array

C6_IdAndBackReferenceIffChild ==
    Generated =>
        /\ Cardinality({k \in 1..Len(EventNodes) :
                            ClassOf(writes[k].text).extends}) = 1
        /\ \A k \in 1..Len(EventNodes) :
              /\ HasIdColumn(writes[k].text) <=> ~EventNodes[k].root
              /\ Len(BackReferences(writes[k].text)) = 1 <=> ~EventNodes[k].root
              /\ ClassOf(writes[k].text).extends <=> EventNodes[k].root

\* An unnamed tuple field holding a named primitive array has been
\* generated: the array's node, a child, extends BlockchainEventEntity and
\* has neither the id column nor a back-reference.
C6_ChildOfUnnamedFieldTakenForRoot ==
    /\ Generated
    /\ Len(event.inputs) = 1
    /\ event.inputs[1].name = <<>>
    /\ event.inputs[1].type = TypeString(TupleType, 0, 0)
    /\ Len(event.inputs[1].components) = 1
    /\ event.inputs[1].components[1].name = <<"a">>
    /\ event.inputs[1].components[1].type = TypeString(AddressType, 0, 2)
    /\ Len(writes) = 3
    /\ ~EventNodes[1].root
    /\ ClassOf(writes[1].text).extends
    /\ ~HasIdColumn(writes[1].text)
    /\ BackReferences(writes[1].text) = <<>>

\* Two structurally different nodes of the event were given one entity name.
NameCollision ==
    \E k \in 1..Len(writes) : \E l \in (k + 1)..Len(writes) :
        /\ ClassOf(writes[k].text).name = ClassOf(writes[l].text).name
        /\ EventNodes[k] # EventNodes[l]

\* C1: within one generation run, whenever two structurally different entity
\* nodes synthesize the same entity name, the run aborts with an error; it
\* never accepts both so that the later-written entity file replaces the
\* earlier one.
C1_NameCollisionAborts ==
    Generated => ~NameCollision

\* An event A with a tuple field a has been generated without an error: the
\* child and the root are both named AEntity_c0, and the one file of that
\* name holds the root's text, written over the child's.
C1_ChildFileReplacedByRoot ==
    /\ Generated
    /\ NameCollision
    /\ event.eventName = <<"A">>
    /\ Len(event.inputs) = 1
    /\ event.inputs[1].name = <<"a">>
    /\ event.inputs[1].type = TypeString(TupleType, 0, 0)
    /\ Len(writes) = 2
    /\ writes[1].file = <<"A", "Entity_", "c", "0">>
    /\ writes[2].file = <<"A", "Entity_", "c", "0">>
    /\ writes[1].text # writes[2].text
    /\ DOMAIN files = {<<"A", "Entity_", "c", "0">>}
    /\ files[<<"A", "Entity_", "c", "0">>] = writes[2].text

----------------------------------------------------------------------------
(* The mapping table of the column mapper (under SpecTypes) *)

\* The precision constant of an integer kind and width.
MaxDigitsConstant(underlyingType, width) ==
    (IF underlyingType = UintType THEN <<"U","I","N","T">> ELSE <<"I","N","T">>)
        \o <<"_">> \o NumberToString(width) \o <<"_MAX_DIGITS">>

\* C11: every column emitted for a primitive non-array field is non-nullable
\* and not updatable, and its storage type follows the mapping table: uint
\* and int map to numeric whose precision is the MAX_DIGITS constant of that
\* kind and width (one of the generated constants), bool maps to boolean,
\* and address, bytesN, bytes and string map to varchar.
C11_ColumnFollowsMappingTable ==
    PrimitiveGenerated =>
        /\ Len(Columns(rootEntity)) = 1
        /\ ~Columns(rootEntity)[1].nullable
        /\ ~Columns(rootEntity)[1].update
        /\ IF Written.underlyingType \in {UintType, IntType}
           THEN /\ Columns(rootEntity)[1].type = "numeric"
                /\ Columns(rootEntity)[1].precision
                       = MaxDigitsConstant(Written.underlyingType, Written.typeSize)
                /\ Columns(rootEntity)[1].precision \in generateNumericConstants
           ELSE IF Written.underlyingType = BoolType
           THEN /\ Columns(rootEntity)[1].type = "boolean"
                /\ Columns(rootEntity)[1].precision = NoValue
           ELSE /\ Columns(rootEntity)[1].type = "varchar"
                /\ Columns(rootEntity)[1].precision = NoValue

\* The column of an int136 field has been generated.
C11_SignedIntegerColumnGenerated ==
    /\ PrimitiveGenerated
    /\ param.type = TypeString(IntType, 136, 0)
    /\ Len(Columns(rootEntity)) = 1
    /\ Columns(rootEntity)[1].type = "numeric"
    /\ Columns(rootEntity)[1].precision
           = <<"I","N","T","_","1","3","6","_MAX_DIGITS">>
    /\ ~Columns(rootEntity)[1].nullable
    /\ ~Columns(rootEntity)[1].update


----------------------------------------------------------------------------
(* Properties of the entities generator (under SpecGenerator) *)

\* A step that is a call of generate().
GenerateCalled == ~Running /\ run' # run

NoOutputWritten == emitted' = emitted /\ files' = files

\* C12: a call of generate() made while no initialize() has completed fails
\* at once with the 'not initialized' error and writes neither an ABI file
\* nor an entity file; a call made after initialize() has completed does not
\* raise that error.
C12_GenerateRequiresInitialize ==
    [][GenerateCalled =>
          IF generator.xxHashInstance
          THEN run'.error # NotInitializedError
          ELSE /\ run'.phase = "failed"
               /\ run'.error = NotInitializedError
               /\ NoOutputWritten]_vars

\* generate() was called while initialize() was still pending, and a contract
\* with an event was waiting to be processed.
C12_GenerateWhileInitializing ==
    /\ run.error = NotInitializedError
    /\ generator.initializing
    /\ ~generator.xxHashInstance
    /\ \E i \in 1..Len(run.contracts) : run.contracts[i].abi # <<>>
    /\ emitted.abis = NoAbis
    /\ files = EmptyDir

\* The contracts the run has processed so far.
ProcessedContracts == SubSeq(run.contracts, 1, run.next - 1)

TopicsOf(contractInfo) ==
    {getEventTopic(contractInfo.abi[i].name) : i \in 1..Len(contractInfo.abi)}

EncounteredTopics ==
    UNION {TopicsOf(ProcessedContracts[i]) : i \in 1..Len(ProcessedContracts)}

ContractsWithTopic(topic) ==
    {ProcessedContracts[i].contractName :
        i \in {j \in 1..Len(ProcessedContracts) : topic \in TopicsOf(ProcessedContracts[j])}}

Elements(seq) == {seq[i] : i \in 1..Len(seq)}

NoDuplicates(seq) == \A i, j \in 1..Len(seq) : seq[i] = seq[j] => i = j

RegistryTopics == {run.topicsToContracts[i].topic : i \in 1..Len(run.topicsToContracts)}

\* One entry per distinct topic the processed contracts declare.
EntryPerTopic ==
    /\ RegistryTopics = EncounteredTopics
    /\ \A i, j \in 1..Len(run.topicsToContracts) :
          run.topicsToContracts[i].topic = run.topicsToContracts[j].topic => i = j

\* The names of an entry are the contracts that declare its topic.
EntryNamesTheDeclaringContracts ==
    \A i \in 1..Len(run.topicsToContracts) :
       Elements(run.topicsToContracts[i].contractNames)
           = ContractsWithTopic(run.topicsToContracts[i].topic)

EachContractListedOnce ==
    \A i \in 1..Len(run.topicsToContracts) :
       NoDuplicates(run.topicsToContracts[i].contractNames)

IsPrefix(s, t) == Len(s) <= Len(t) /\ SubSeq(t, 1, Len(s)) = s

\* Processing a further contract keeps every entry and every contract name.
RegistryOnlyGrows ==
    (Running /\ run'.phase = "processing") =>
        /\ Len(run.topicsToContracts) <= Len(run'.topicsToContracts)
        /\ \A i \in 1..Len(run.topicsToContracts) :
              /\ run'.topicsToContracts[i].topic = run.topicsToContracts[i].topic
              /\ run'.topicsToContracts[i].eventName = run.topicsToContracts[i].eventName
              /\ IsPrefix(run.topicsToContracts[i].contractNames,
                          run'.topicsToContracts[i].contractNames)

\* The parts of C13 that hold of the code: one entry per distinct topic,
\* naming the set of the contracts that declare it, and growing only.
RegistryMergesPerTopic ==
    /\ [](EntryPerTopic /\ EntryNamesTheDeclaringContracts)
    /\ [][RegistryOnlyGrows]_vars

\* C13: after any sequence of contracts the topic registry holds one entry per
\* distinct event topic, whose contract names are exactly the contracts whose
\* ABI has an event of that topic, each contract listed once.  (That
\* processing a further contract never removes or overwrites an entry or a
\* contract name is RegistryOnlyGrows, part of RegistryMergesPerTopic.)
C13_RegistryEntryPerTopic ==
    /\ EntryPerTopic
    /\ EntryNamesTheDeclaringContracts
    /\ EachContractListedOnce

\* A contract whose ABI declares the same event twice has been processed, and
\* its name stands twice in the entry of that event's topic.
C13_ContractListedTwice ==
    /\ run.phase = "generated"
    /\ \E i \in 1..Len(run.topicsToContracts) :
          /\ ~NoDuplicates(run.topicsToContracts[i].contractNames)
          /\ \E c \in 1..Len(run.contracts) :
                /\ Len(run.contracts[c].abi) = 2
                /\ run.contracts[c].abi[1] = run.contracts[c].abi[2]
                /\ getEventTopic(run.contracts[c].abi[1].name)
                       = run.topicsToContracts[i].topic

\* C14: when entity generation completes, the topic-to-contracts mapping
\* accumulated over the processed contracts has been emitted as an output of
\* the run, with an entry {eventName, contractNames} for every event topic
\* encountered.
C14_TopicListEmitted ==
    run.phase = "generated" =>
        /\ emitted.topicList.written
        /\ emitted.topicList.entries = run.topicsToContracts
        /\ {emitted.topicList.entries[i].topic :
               i \in 1..Len(emitted.topicList.entries)} = EncounteredTopics

\* Generation has completed over two contracts that share an event topic, the
\* registry held an entry for it, and no topic list has been emitted.
C14_RegistryDroppedAfterGeneration ==
    /\ run.phase = "generated"
    /\ Len(run.contracts) = 2
    /\ \E i \in 1..Len(run.topicsToContracts) :
          Elements(run.topicsToContracts[i].contractNames) = {<<"X">>, <<"Y">>}
    /\ DOMAIN files # {}
    /\ ~emitted.topicList.written

----------------------------------------------------------------------------
(* Properties of the migration generator (under SpecMigration) *)

IsTableStatement(query) ==
    /\ Len(query) >= 3
    /\ query[1] \in {W("CREATE"), W("ALTER"), W("DROP")}
    /\ query[2] = W("TABLE")

FirstQuoted(query) == SetMin({i \in 1..Len(query) : query[i].kind = "quoted"})

\* The statement names its table as "schemaName"."table".
NamesTableIn(query, schemaName) ==
    /\ FirstQuoted(query) + 2 <= Len(query)
    /\ query[FirstQuoted(query)] = Q(schemaName)
    /\ query[FirstQuoted(query) + 1] = W(".")
    /\ IsQuoted(query[FirstQuoted(query) + 2])

\* The table a statement is about, qualified or not.
NamedTable(query) ==
    IF /\ FirstQuoted(query) + 2 <= Len(query)
       /\ query[FirstQuoted(query) + 1] = W(".")
    THEN query[FirstQuoted(query) + 2].text
    ELSE query[FirstQuoted(query)].text

AllQualified(queries, schemaName) ==
    \A i \in 1..Len(queries) :
       IsTableStatement(queries[i]) => NamesTableIn(queries[i], schemaName)

\* The emitted list has the engine's statements, one for one and in order.
SameStatements(queries, produced) ==
    /\ Len(queries) = Len(produced)
    /\ \A i \in 1..Len(produced) :
          /\ queries[i][1] = produced[i][1]
          /\ queries[i][2] = produced[i][2]
          /\ NamedTable(queries[i]) = NamedTable(produced[i])

\* The part of C15 that holds of the code: the CREATE TABLE and ALTER TABLE
\* statements of the up list are qualified, and both lists keep the number
\* and the order of the engine's statements.
UpListQualifiedAndOrderKept ==
    migration.file.written =>
        /\ AllQualified(migration.file.up, migration.config.schemaName)
        /\ SameStatements(migration.file.up, migration.sqlInMemory.upQueries)
        /\ SameStatements(migration.file.down, migration.sqlInMemory.downQueries)

\* C15: in the emitted migration every CREATE TABLE, ALTER TABLE and DROP
\* TABLE statement, of the up list and of the down list alike, names its table
\* qualified with the configured schema name, and the rewriting keeps the
\* number and the order of the statements the engine produced.
C15_SchemaQualifiedStatements ==
    migration.file.written =>
        /\ AllQualified(migration.file.up, migration.config.schemaName)
        /\ AllQualified(migration.file.down, migration.config.schemaName)
        /\ SameStatements(migration.file.up, migration.sqlInMemory.upQueries)
        /\ SameStatements(migration.file.down, migration.sqlInMemory.downQueries)

\* A migration was written for a child table with a foreign key, and the
\* ALTER TABLE ... DROP CONSTRAINT of its down list names the bare table.
C15_DownAlterTableUnqualified ==
    /\ migration.file.written
    /\ \E i \in 1..Len(migration.file.down) :
          /\ migration.file.down[i][1] = W("ALTER")
          /\ migration.file.down[i][2] = W("TABLE")
          /\ IsQuoted(migration.file.down[i][3])
          /\ migration.file.down[i][3] # Q(migration.config.schemaName)
          /\ migration.file.down[i] = migration.sqlInMemory.downQueries[i]

QualifiersIn(query) ==
    {query[k] : k \in {j \in 1..(Len(query) - 1) : query[j + 1] = W(".")}}

\* The identifiers that stand for the schema in the emitted text: the one of
\* the CREATE SCHEMA preamble and the qualifier of every qualified table.
SchemaQualifiers(file) ==
    {file.preamble[Len(file.preamble)]}
    \cup UNION {QualifiersIn(file.up[i]) : i \in 1..Len(file.up)}
    \cup UNION {QualifiersIn(file.down[i]) : i \in 1..Len(file.down)}

\* process.env.<variable>, interpolated where the schema name stands.
EnvironmentReference(variable) == [kind |-> "env", text |-> variable]

\* C16: with schemaVariable true, schemaName names an environment variable
\* and every schema qualification of the emitted migration is the reference
\* process.env.<schemaName>; with schemaVariable false or omitted it is the
\* literal schemaName.
C16_SchemaVariableSelectsReference ==
    migration.file.written =>
        SchemaQualifiers(migration.file) =
            {IF migration.config.schemaVariable = "true"
             THEN EnvironmentReference(migration.config.schemaName)
             ELSE Q(migration.config.schemaName)}

\* A migration was written under schemaVariable: true, and its preamble and
\* its tables carry the literal "DB_SCHEMA".
C16_VariableSchemaWrittenLiterally ==
    /\ migration.file.written
    /\ migration.config.schemaVariable = "true"
    /\ migration.config.schemaName = <<"DB_SCHEMA">>
    /\ Len(migration.file.up) > 0
    /\ SchemaQualifiers(migration.file) = {Q(<<"DB_SCHEMA">>)}

\* The part of C16 that holds of the code: without schemaVariable: true the
\* literal schemaName qualifies.
LiteralSchemaNameUsed ==
    (migration.file.written /\ migration.config.schemaVariable # "true") =>
        SchemaQualifiers(migration.file) = {Q(migration.config.schemaName)}

MigrationSettled == migration.phase \in {"returned", "threw"}

\* C17: if the engine fails to initialize or fails while producing the schema
\* statements, the synthesis aborts with that error and no migration file is
\* written; a migration file exists only if every step before the write
\* succeeded.
C17_NoFileUnlessEveryStepSucceeded ==
    /\ migration.error \in {"connect", "metadata", "log"} =>
          /\ ~migration.file.written
          /\ migration.phase \in {"finally", "threw"}
    /\ migration.file.written =>
          /\ migration.error = "none"
          /\ migration.sqlInMemory = SchemaBuilderLog(migration.entities)
          /\ migration.phase \in {"finally", "returned"}
    /\ migration.phase = "threw" <=> (MigrationSettled /\ migration.error # "none")

\* The engine ran and the schema builder failed on two related tables: the
\* call threw that error and left no file.
C17_LogFailedNoFile ==
    /\ migration.phase = "threw"
    /\ migration.error = "log"
    /\ Len(migration.entities) = 2
    /\ ~migration.file.written

----------------------------------------------------------------------------
(* Properties of array-of-array types (under SpecNested) *)

\* C19: a field whose type is an array of arrays (uint256[][], tuple[2][3])
\* makes the decomposition of its whole event fail with an error; no entity
\* is generated for such a field as if it were a single-dimension array.
C19_ArrayOfArrayRejected ==
    pc # "ready" =>
        /\ pc = "failed"
        /\ writes = <<>>
        /\ DOMAIN files = {}

\* uint256[][] was classified as the dynamic array uint256[] and generated
\* as one: the root entity with a one-to-many relation and one child entity.
C19_NestedArrayGeneratedAsArray ==
    /\ pc = "done"
    /\ param.type = NestedTypeString(UintType, 256, -1, -1)
    /\ Classified
    /\ typeDetails.arraySize = -1
    /\ typeDetails.typeSize = <<"2", "5", "6">>
    /\ Len(writes) = 2
    /\ \E i \in 1..Len(rootEntity) : IsRelation(rootEntity[i])

----------------------------------------------------------------------------
(* Properties of generateTypeOrmFiles (under SpecFiles) *)

CallerSettled == caller.phase \in {"resolved", "rejected"}

\* The entity files of the run: those of every event of the configuration.
EntityFilesInPlace ==
    DOMAIN files =
        {w.file : w \in Elements(EntitiesWrites(AllEvents(ContractDetailsOf(run.contracts))))}

\* The part of C20 that holds of the code: a failed migration synthesis
\* leaves the entity files of the run in place.
EntityFilesKeptOnMigrationFailure ==
    migration.phase = "threw" => EntityFilesInPlace

\* C20: a failure of migration synthesis is reported to the caller of
\* generateTypeOrmFiles, whose promise rejects with that error, and the entity
\* files generated earlier in the run are left in place.
C20_MigrationFailureReachesCaller ==
    (migration.phase = "threw" /\ CallerSettled) =>
        /\ caller.phase = "rejected"
        /\ caller.error = migration.error
        /\ EntityFilesInPlace

\* The engine could not start, the synthesis threw, and the promise of
\* generateTypeOrmFiles resolved over the entity files of the run.
C20_CallerResolvedAfterMigrationThrew ==
    /\ migration.phase = "threw"
    /\ migration.error = "connect"
    /\ caller.phase = "resolved"
    /\ DOMAIN files # {}
    /\ EntityFilesInPlace

----------------------------------------------------------------------------
(* Properties of getFullEventSignature (under SpecSignature) *)

\* The type a parameter's array suffix is put on: the type string without its
\* last bracket group.
ArrayChildType(type) ==
    SubSeq(type, 1, SetMax({i \in 1..Len(type) : type[i] = "["}) - 1)

LastBracketGroup(type) ==
    SubSeq(type, SetMax({i \in 1..Len(type) : type[i] = "["}), Len(type))

RECURSIVE SighashFormat(_)
RECURSIVE SighashFormats(_)

SighashFormats(inputs) ==
    IF inputs = <<>> THEN <<>>
    ELSE IF Len(inputs) = 1 THEN SighashFormat(inputs[1])
    ELSE SighashFormat(inputs[1]) \o <<",">> \o SighashFormats(Tail(inputs))

\* The canonical form of a parameter: an array is its element's form followed
\* by its suffix, a tuple the parenthesized list of its components' forms, a
\* primitive its type string.
SighashFormat(input) ==
    IF input.type # <<>> /\ input.type[Len(input.type)] = "]"
    THEN SighashFormat([input EXCEPT !.type = ArrayChildType(input.type)])
         \o LastBracketGroup(input.type)
    ELSE IF input.type = TupleType
         THEN Parenthesized(SighashFormats(input.components))
         ELSE input.type

\* No field of the event's tree has more than one array suffix.
RECURSIVE SingleSuffixes(_)
SingleSuffixes(inputs) ==
    \A i \in 1..Len(inputs) :
       /\ Cardinality({k \in 1..Len(inputs[i].type) : inputs[i].type[k] = "["}) <= 1
       /\ SingleSuffixes(inputs[i].components)

\* The part of C21 that holds of the code: the signature is canonical when
\* every array of the tree has one dimension.
SingleDimensionSignatureIsCanonical ==
    (signature # <<>> /\ SingleSuffixes(event.inputs)) =>
        signature = event.eventName \o Parenthesized(SighashFormats(event.inputs))

\* C21: for every event whose inputs are primitives, tuples, arrays of
\* primitives and arrays of tuples, nested to any depth, getFullEventSignature
\* returns Name(t1,...,tn) with primitives as their type string, tuples as
\* the parenthesized list of their expanded components and arrays of tuples
\* as that list followed by the array suffix: the canonical signature.
C21_SignatureIsCanonical ==
    signature # <<>> =>
        signature = event.eventName \o Parenthesized(SighashFormats(event.inputs))

\* The signature of Ev(tuple[2][3] val) over (address,uint256) was computed
\* and ends in one suffix, [2].
C21_SecondDimensionDropped ==
    /\ Len(event.inputs) = 1
    /\ event.inputs[1].type = NestedTypeString(TupleType, 0, 2, 3)
    /\ signature = event.eventName
                   \o <<"(", "(">> \o TypeString(AddressType, 0, 0) \o <<",">>
                   \o TypeString(UintType, 256, 0) \o <<")", "[", "2", "]", ")">>

----------------------------------------------------------------------------
(* C22: what is generated follows the filtered events of each contract *)

\* The events of a configured contract that remain after its filterEvents:
\* the items of type 'event', less those the filter removes.
RemainingEvents(contract) ==
    {contract.abi[i].name :
        i \in {j \in 1..Len(contract.abi) :
                  /\ contract.abi[j].type = "event"
                  /\ contract.filterEvents = "removeA" => contract.abi[j].name # <<"A">>}}

AllRemainingEvents == UNION {RemainingEvents(run.config[i]) : i \in 1..Len(run.config)}

RootEntityNameOf(nm) == generateTypeOrmEntityName(nm, h32ToString(getEventTopic(nm)))

----------------------------------------------------------------------------
(* C23: the migration generator scans the finished entities directory *)

\* The migration generator of the run has listed the entities directory.
MigrationScanned == migration.config.configured /\ migration.phase # "idle"

ScannedTables == {migration.entities[i].table : i \in 1..Len(migration.entities)}

\* The entity files of every event of the configuration, root and child.
ForestFiles ==
    {w.file : w \in Elements(EntitiesWrites(AllEvents(ContractDetailsOf(run.contracts))))}

ScanCoversForest ==
    MigrationScanned =>
        /\ ScannedTables = ForestFiles
        /\ ForestFiles = DOMAIN files
        /\ BaseEntityFile \in lint.disk

NoEntityFileAfterScan ==
    [][MigrationScanned => (DOMAIN files' = DOMAIN files /\ MigrationScanned')]_vars

\* C23: in a run of generateTypeOrmFiles the migration generator lists the
\* entities directory only once the base entity and every entity file, root
\* and child, of every configured contract is written, and from the scan on
\* no entity file is created.
C23_ScanAfterFullForest == []ScanCoversForest /\ NoEntityFileAfterScan

\* The scan of a run whose event has a child entity: both files are listed.
C23_ChildEntityScanned ==
    /\ MigrationScanned
    /\ run.contracts = NestedEventContract
    /\ Cardinality(ScannedTables) = 2
    /\ migration.phase = "returned"
    /\ migration.file # NoFile

----------------------------------------------------------------------------
(* C24: one child node per relation field, recursion as deep as the tree *)

\* The number of tuple or array fields in the tree under the fields ps, the
\* element level of a primitive array included.
RECURSIVE RelationFieldCount(_)
RelationFieldCount(ps) ==
    IF ps = <<>> THEN 0
    ELSE (IF BecomesRelation(Head(ps).type)
          THEN 1 + RelationFieldCount(SubFields(Head(ps)))
          ELSE 0)
         + RelationFieldCount(Tail(ps))

\* The nesting depth of the tree under the fields ps: 0 without a tuple or
\* array field.
RECURSIVE NestingDepth(_)
NestingDepth(ps) ==
    IF ps = <<>> THEN 0
    ELSE LET here == IF BecomesRelation(Head(ps).type)
                     THEN 1 + NestingDepth(SubFields(Head(ps)))
                     ELSE 0
             rest == NestingDepth(Tail(ps))
         IN  IF here > rest THEN here ELSE rest

\* The run of the call has ended, never more than `levels` calls deep, and
\* exactly that deep when it completed.
DepthWithinTree(entity, levels) ==
    /\ entity.halted
    /\ entity.depth <= levels
    /\ ~entity.thrown => entity.depth = levels

\* C24: the generation of every event ends, with at most one call of
\* generateTypeOrmEntity active per level of the type tree; a run that ends
\* without an exception has written one entity per tuple or array field of
\* the tree (one for a fixed array T[n] whatever n is, the element level of a
\* primitive array included) plus the root, and a run that throws has written
\* no more than that.
C24_OneChildPerRelationField ==
    pc # "ready" =>
        /\ DepthWithinTree(EventEntity(event), 1 + NestingDepth(event.inputs))
        /\ pc = "done" => Len(writes) = 1 + RelationFieldCount(event.inputs)
        /\ pc = "failed" => Len(writes) < 1 + RelationFieldCount(event.inputs)

\* A tuple holding a fixed array of two addresses has been generated: three
\* entities (the root, the tuple, the array's element level), three calls
\* deep.
C24_FixedArrayInTupleGenerated ==
    /\ pc = "done"
    /\ Len(event.inputs) = 1
    /\ event.inputs[1].type = TypeString(TupleType, 0, 0)
    /\ Len(event.inputs[1].components) = 1
    /\ event.inputs[1].components[1].type = TypeString(AddressType, 0, 2)
    /\ Len(writes) = 3
    /\ NestingDepth(event.inputs) = 2

----------------------------------------------------------------------------
(* C25: the same event gives the same tree, whatever was generated before *)

\* The tree of a generated entity text: the class (entity and table name) and
\* the data members in order, each with its kind, property and decorator.
TreeOf(written) ==
    [k \in 1..Len(written) |->
        [file    |-> written[k].file,
         class   |-> ClassOf(written[k].text),
         members |-> DataMembers(written[k].text),
         backref |-> BackReferences(written[k].text)]]

----------------------------------------------------------------------------
(* C26: what is still running when generateTypeOrmFiles resolves *)

MigrationFinished ==
    migration.config.configured =>
        /\ migration.phase \in {"returned", "threw"}
        /\ migration.phase = "returned" => migration.file # NoFile
        /\ dataSource.engine # "running"

UmlFinished ==
    uml.docs =>
        /\ uml.phase = "done"
        /\ uml.temporaryFiles = {}

\* The part of C26 that holds of the code: the steps that run synchronously
\* inside generateTypeOrmFiles (entities, constants, index, the scan of the
\* migration generator, the temporary files of the UML generator written) are
\* over when the promise settles.
SynchronousStepsFinished ==
    CallerSettled /\ caller.error # "xxhash" =>
        /\ run.phase = "generated"
        /\ EntityFilesInPlace
        /\ migration.phase # "idle"
        /\ uml.phase # "idle"

\* C26: when the promise of generateTypeOrmFiles resolves, every generator
\* step it started has finished: with migrations configured the migration
\* file is written and the engine destroyed, with docs configured the UML
\* generation has ended and its temporary ormconfig files are removed.
C26_NothingInFlightWhenResolved ==
    caller.phase = "resolved" => (MigrationFinished /\ UmlFinished)

\* The promise has resolved while the migration generator still awaits its
\* DataSource and the temporary files of the UML generator are still in the
\* entities directory.
C26_ResolvedWithWorkInFlight ==
    /\ caller.phase = "resolved"
    /\ migration.config.configured
    /\ migration.phase = "initializing"
    /\ migration.file = NoFile
    /\ uml.docs
    /\ uml.phase = "building"
    /\ OrmConfigFile(<<"all">>) \in uml.temporaryFiles

----------------------------------------------------------------------------
(* C27: the lint queue across the runs of one process *)

LintFilesRunning == caller.phase = "linting"

\* The files the current run has written: the output directory was cleared
\* when the run began.
WrittenThisRun == lint.disk

\* The part of C27 that holds of the code: in the first run of a process
\* every path handed to the linter was written by that run.
FirstRunLintsItsOwnFiles ==
    (LintFilesRunning /\ lint.runs = 1) => lint.linted \subseteq WrittenThisRun

\* C27: across the runs of one process, whenever lintFiles runs, every path
\* of the lint queue was written during the current run and is on disk; a
\* path queued by an earlier run whose file went with the cleared output
\* directory is not linted again.
C27_LintQueueIsCurrentRun ==
    LintFilesRunning =>
        /\ lint.filesToLint \subseteq WrittenThisRun
        /\ lint.linted \subseteq WrittenThisRun

\* A second run over a configuration without event A lints the entity file
\* the first run wrote for A, which is no longer on disk, and its promise
\* rejects.
C27_StalePathLinted ==
    /\ lint.runs = 2
    /\ caller.phase = "rejected"
    /\ caller.error = "NoFilesFound"
    /\ RootEntityNameOf(<<"A">>) \in lint.linted
    /\ RootEntityNameOf(<<"A">>) \notin lint.disk
    /\ RootEntityNameOf(<<"A">>) \notin DOMAIN files

----------------------------------------------------------------------------
(* C28: the table references of the forward script *)

\* The positions of a statement that name a table: the table the statement
\* is about, and the target of a REFERENCES clause.
ReferencePositions(query) ==
    {k \in 2..Len(query) : query[k - 1] = W("REFERENCES") /\ IsQuoted(query[k])}

\* The identifier at position k is the schema's, followed by '.' and a table.
QualifiedAt(query, k, schemaName) ==
    /\ k + 2 <= Len(query)
    /\ query[k] = Q(schemaName)
    /\ query[k + 1] = W(".")
    /\ IsQuoted(query[k + 2])

ReferencesQualified(queries, schemaName) ==
    \A i \in 1..Len(queries) :
        \A k \in ReferencePositions(queries[i]) : QualifiedAt(queries[i], k, schemaName)

\* C28: in the forward script of the emitted migration every reference to a
\* generated table is qualified with the configured schema, the REFERENCES
\* target of a foreign key added by ALTER TABLE included: no statement
\* addresses an unqualified table.
C28_EveryTableReferenceQualified ==
    migration.file.written =>
        /\ AllQualified(migration.file.up, migration.config.schemaName)
        /\ ReferencesQualified(migration.file.up, migration.config.schemaName)

\* A migration was written whose forward script adds a foreign key to a
\* qualified child table with the bare parent table as its REFERENCES target.
C28_ReferencesTargetUnqualified ==
    /\ migration.file.written
    /\ \E i \in 1..Len(migration.file.up) :
          /\ migration.file.up[i][1] = W("ALTER")
          /\ NamesTableIn(migration.file.up[i], migration.config.schemaName)
          /\ \E k \in ReferencePositions(migration.file.up[i]) :
                /\ migration.file.up[i][k] # Q(migration.config.schemaName)
                /\ (k + 1 <= Len(migration.file.up[i]) =>
                       migration.file.up[i][k + 1] # W("."))

----------------------------------------------------------------------------
(* C29: the two sides of every relation *)

PairedDecorator(decorator) == IF decorator = "OneToMany" THEN "ManyToOne" ELSE "OneToOne"

\* The back-reference b of the child's text answers the relation r of the
\* parent's text.
Answers(b, r, parentText) ==
    /\ b.target = ClassOf(parentText).name
    /\ b.inverse = r.property
    /\ b.property = r.inverse
    /\ b.decorator = PairedDecorator(r.decorator)

\* The place of every node in the event's tree, in the order of EventNodes:
\* the indexes of the fields that lead to it from the root.
RECURSIVE PathsUnder(_, _, _)
PathsUnder(ps, parentPath, i) ==
    IF i > Len(ps) THEN <<>>
    ELSE (IF BecomesRelation(ps[i].type)
          THEN PathsUnder(SubFields(ps[i]), Append(parentPath, i), 1)
                   \o <<Append(parentPath, i)>>
          ELSE <<>>)
         \o PathsUnder(ps, parentPath, i + 1)

EventPaths == PathsUnder(event.inputs, <<>>, 1) \o << <<>> >>

\* The node the k-th node was created by, and the field it was created for.
ParentOf(k) ==
    CHOOSE j \in 1..Len(EventPaths) :
        EventPaths[j] = SubSeq(EventPaths[k], 1, Len(EventPaths[k]) - 1)

FieldIndexOf(k) == EventPaths[k][Len(EventPaths[k])]

\* The two sides of the relation between the k-th node and its parent agree.
SidesAgree(k) ==
    LET parentText == writes[ParentOf(k)].text
        childText  == writes[k].text
        r          == DataMembers(parentText)[FieldIndexOf(k)]
    IN  /\ r.kind = "relation"
        /\ r.target = ClassOf(childText).name
        /\ Len(BackReferences(childText)) = 1
        /\ Answers(BackReferences(childText)[1], r, parentText)

ChildNodes == {k \in 1..Len(EventPaths) : EventPaths[k] # <<>>}

\* A name the two case conversions treat alike however often they are
\* applied.
StableName(nm) ==
    /\ camelcase(camelcase(nm)) = camelcase(nm)
    /\ pascalCase(camelcase(nm)) = pascalCase(nm)

\* The part of C29 that holds of the code: the two sides agree for every
\* pair whose parent is the root or the node of a named field, when the names
\* of the pair are stable under the case conversions.
NamedRelationSidesAgree ==
    Generated =>
        \A k \in ChildNodes :
            (/\ EventPaths[ParentOf(k)] = <<>> \/ EventNodes[ParentOf(k)].name # <<>>
             /\ StableName(EventNodes[ParentOf(k)].name)
             /\ StableName(EventNodes[ParentOf(k)].fields[FieldIndexOf(k)].name))
                => SidesAgree(k)

\* C29: for every parent-child pair of a generated tree the class and the
\* inverse property the parent's relation names are the child's class and
\* back-reference property, the class and the inverse property the child's
\* back-reference names are the parent's class and its property for the
\* field, and OneToMany pairs with ManyToOne, OneToOne with OneToOne.
C29_RelationSidesAgree ==
    Generated => \A k \in ChildNodes : SidesAgree(k)

\* The event A with the tuple field a_aB has been generated: the root
\* declares the relation as property aAB, and the child's back-reference
\* names aAb as the inverse property.
C29_InversePropertyMisnamed ==
    /\ Generated
    /\ event.eventName = <<"A">>
    /\ event.inputs[1].name = WordyName
    /\ event.inputs[1].type = TypeString(TupleType, 0, 0)
    /\ event.inputs[1].components[1].components = <<>>
    /\ Len(writes) = 2
    /\ DataMembers(writes[2].text)[1].property = <<"a", "A", "B">>
    /\ BackReferences(writes[1].text)[1].inverse = <<"a", "A", "b">>
    /\ BackReferences(writes[1].text)[1].target = ClassOf(writes[2].text).name
    /\ DataMembers(writes[2].text)[1].target = ClassOf(writes[1].text).name

\* An unnamed tuple field holding a tuple has been generated (under Spec): the unnamed
\* node declares a relation to the inner tuple's class, whose file has no
\* back-reference.
UnnamedParentWithoutBackReference ==
    /\ Generated
    /\ Len(event.inputs) = 1
    /\ event.inputs[1].name = <<>>
    /\ event.inputs[1].type = TypeString(TupleType, 0, 0)
    /\ Len(event.inputs[1].components) = 1
    /\ event.inputs[1].components[1].name = <<"a">>
    /\ event.inputs[1].components[1].type = TypeString(TupleType, 0, 0)
    /\ Len(writes) = 3
    /\ ParentOf(1) = 2
    /\ Len(Relations(writes[2].text)) = 1
    /\ Relations(writes[2].text)[1].target = ClassOf(writes[1].text).name
    /\ BackReferences(writes[1].text) = <<>>
    /\ SidesAgree(2)

----------------------------------------------------------------------------
(* C30: the generated files are closed under reference *)

IsHeader(member) == member.kind = "header"

\* The entity imports of a file, in order.
ImportsOf(text) == SelectSeq(text, IsHeader)[1].imports

\* The classes a file refers to: its relation targets and its
\* back-reference target.
ReferencedClasses(text) ==
    {Relations(text)[i].target : i \in 1..Len(Relations(text))}
    \cup {BackReferences(text)[i].target : i \in 1..Len(BackReferences(text))}

ImportCount(text, class) ==
    Cardinality({i \in 1..Len(ImportsOf(text)) : ImportsOf(text)[i] = class})

\* The k-th file written refers only to classes that have a file, imports each
\* of them once and does not import its own class; the files of its relation
\* targets were written before it.
ClosedAt(k) ==
    /\ \A class \in ReferencedClasses(writes[k].text) :
          /\ class \in DOMAIN files
          /\ ClassOf(files[class]).name = class
          /\ ImportCount(writes[k].text, class) = 1
    /\ ImportCount(writes[k].text, ClassOf(writes[k].text).name) = 0
    /\ \A i \in 1..Len(Relations(writes[k].text)) :
          \E j \in 1..(k - 1) : writes[j].file = Relations(writes[k].text)[i].target

\* C30: after entity generation with an entities output path the generated
\* files are closed under reference: every class a file refers to, as a
\* relation target or as a back-reference target, has a file of its own at
\* every depth, the referring file imports it exactly once, no file imports
\* the class it declares, and a child's file is written before the file of
\* the node that declares it.
C30_ClosedUnderReference ==
    Generated => \A k \in 1..Len(writes) : ClosedAt(k)

\* The nodes of the event's tree have distinct entity names, every field that
\* becomes a node has a name, and the names are stable under the case
\* conversions.
CleanlyNamed ==
    /\ \A k, j \in 1..Len(EventNodes) :
          pascalCase(EventNodes[k].name) = pascalCase(EventNodes[j].name) => k = j
    /\ \A k \in 1..Len(EventNodes) :
          /\ EventNodes[k].name # <<>>
          /\ StableName(EventNodes[k].name)
    /\ \A k \in ChildNodes :
          StableName(EventNodes[ParentOf(k)].fields[FieldIndexOf(k)].name)

\* The part of C30 that holds of the code: the files of a cleanly named tree
\* are closed under reference.
CleanlyNamedTreeIsClosed ==
    (Generated /\ CleanlyNamed) => \A k \in 1..Len(writes) : ClosedAt(k)

\* The event A with the tuple field a has been generated: the root's file
\* replaced the child's, refers to the class it declares and imports nothing,
\* and the child's back-reference is in no file.
C30_RootRefersToItsOwnClass ==
    /\ Generated
    /\ event.eventName = <<"A">>
    /\ Len(event.inputs) = 1
    /\ event.inputs[1].name = <<"a">>
    /\ event.inputs[1].type = TypeString(TupleType, 0, 0)
    /\ Len(writes) = 2
    /\ writes[1].file = writes[2].file
    /\ ClassOf(writes[2].text).name \in ReferencedClasses(writes[2].text)
    /\ ImportsOf(writes[2].text) = <<>>
    /\ files[writes[2].file] = writes[2].text

\* A cleanly named tree of three files: the root imports its child, the
\* child imports the root and its own child.
ThreeFilesClosed ==
    /\ Generated
    /\ CleanlyNamed
    /\ Len(writes) = 3
    /\ ParentOf(1) = 2
    /\ Len(ImportsOf(writes[2].text)) = 2
    /\ Len(ImportsOf(writes[3].text)) = 1

====
